---- MODULE Spec2Model ----
(***************************************************************************)
(* Stream resolution pipeline of the trailer service: the resolved-stream  *)
(* cache and remote fallback of TrailerService (trailerService.ts) and the *)
(* client negotiation chain, format classification and selection of        *)
(* YouTubeExtractor (youtubeExtractor.ts).                                 *)
(*                                                                         *)
(* JavaScript runs one handler at a time: an action of this module is the  *)
(* code a request runs between two awaits on the network or the file       *)
(* system.  Requests interleave only at those awaits.                      *)
(***************************************************************************)
EXTENDS Integers, Sequences, FiniteSets, TLC

(***************************************************************************)
(* Bounds of the model.                                                    *)
(***************************************************************************)
\* Date.now() advances in steps of half the cache TTL, up to this many.
MaxTicks == 3
\* Entries the cache may already hold when the behaviour starts (earlier
\* requests of the same process, all stored at hour 0).
Prefill == 99

(***************************************************************************)
(* Program constants.                                                      *)
(***************************************************************************)
TickMs == 150 * 60 * 1000
CACHE_TTL_MS == 5 * 60 * 60 * 1000
MAX_CACHE_ENTRIES == 100

PREFERRED_MUXED_ITAGS == <<22, 18, 59, 78>>
ADAPTIVE_VIDEO_ITAGS_RANKED == <<137, 248, 136, 247, 135, 244, 134, 243>>
ADAPTIVE_AUDIO_ITAGS_RANKED == <<141, 140, 251, 250, 249>>

\* The clients array of extract, in catalog order.
clients == <<"ANDROID", "IOS", "TVHTML5_EMBEDDED", "WEB_EMBEDDED">>

Min(a, b) == IF a < b THEN a ELSE b

\* JavaScript truthiness of a string: the empty string (standing also for an
\* absent optional field) is falsy.
Truthy(s) == s # ""

(***************************************************************************)
(* URLs.  A URL string is modelled by the parts the code inspects: its     *)
(* scheme, the labels of its host name, the extension of its path, whether *)
(* a query string follows the path, and (for the manifest file written by  *)
(* writeDashManifestToFile) the video id in the file name; itag tells the  *)
(* locators of the descriptors of one response apart.  NoUrl is the null / *)
(* undefined / empty locator.                                              *)
(***************************************************************************)
NoUrl ==
    [scheme |-> "", host |-> <<>>, ext |-> "", query |-> FALSE, vid |-> 0, itag |-> 0]

Url(scheme, host, ext, query) ==
    [scheme |-> scheme, host |-> host, ext |-> ext, query |-> query, vid |-> 0,
     itag |-> 0]

\* `${cacheDir}trailer_${videoId}.mpd`
ManifestPath(videoId) ==
    [scheme |-> "file", host |-> <<>>, ext |-> "mpd", query |-> FALSE,
     vid |-> videoId, itag |-> 0]

\* url.endsWith('.mpd'): the string ends with the path's extension only when
\* no query string follows the path.
EndsWithMpd(url) == url.ext = "mpd" /\ ~url.query

\* The host list of isValidTrailerUrl, each domain as its labels.
ALLOWED_HOSTS ==
    { <<"theplatform", "com">>, <<"youtube", "com">>, <<"youtu", "be">>,
      <<"vimeo", "com">>, <<"dailymotion", "com">>, <<"twitch", "tv">>,
      <<"amazonaws", "com">>, <<"cloudfront", "net">>, <<"googlevideo", "com">> }

MEDIA_EXTENSIONS == {"mp4", "m3u8", "mpd", "webm", "mov"}

\* host.includes(d): d occurs somewhere in the host name.  On label
\* sequences this is an occurrence of d's labels as a contiguous run (the
\* string test also matches inside a label; no host of the model has such a
\* label).
HostIncludes(host, d) ==
    \E i \in 1..Len(host) :
        /\ i + Len(d) - 1 <= Len(host)
        /\ SubSeq(host, i, i + Len(d) - 1) = d

\* isValidTrailerUrl.  new URL(url) throws on a string that is no URL
\* (scheme "" here) and the catch returns false.
isValidTrailerUrl(url) ==
    /\ url.scheme # ""
    /\ url.scheme \in {"http", "https"}
    /\ \/ \E d \in ALLOWED_HOSTS : HostIncludes(url.host, d)
       \/ url.ext \in MEDIA_EXTENSIONS

(***************************************************************************)
(* Format descriptors (InnertubeFormat).  mimeType is kept as its major    *)
(* type, its subtype and the list of codec tokens of its codecs parameter. *)
(* An absent optional string is "", an absent url is NoUrl.                *)
(***************************************************************************)
Mime(major, sub, codecs) == [major |-> major, sub |-> sub, codecs |-> codecs]

Fmt(itag, url, mime, quality, qualityLabel, audioQuality, bitrate, height) ==
    [itag |-> itag, url |-> url, mimeType |-> mime, quality |-> quality,
     qualityLabel |-> qualityLabel, audioQuality |-> audioQuality,
     bitrate |-> bitrate, height |-> height]

\* Faulty variant of HasUrl: a descriptor passes without url.
HasUrl_any(f) == TRUE

\* if (f.url)
HasUrl(f) == f.url # NoUrl

\* parseMimeType(...).codecs.includes(','): the codecs parameter lists its
\* tokens separated by commas, so it holds a comma iff it has two or more.
CodecsHasComma(mime) == Len(mime.codecs) > 1

isMuxedFormat(f) ==
    CodecsHasComma(f.mimeType) \/ (Truthy(f.audioQuality) /\ Truthy(f.qualityLabel))

\* Faulty variant of isVideoMp4: every container passes.
isVideoMp4_any(f) == TRUE

\* format.mimeType.startsWith('video/mp4')
isVideoMp4(f) == f.mimeType.major = "video" /\ f.mimeType.sub = "mp4"

IsVideoMime(f) == f.mimeType.major = "video"

IsAudioMime(f) == f.mimeType.major = "audio"

formatQualityLabel(f) ==
    IF Truthy(f.qualityLabel) THEN f.qualityLabel
    ELSE IF Truthy(f.quality) THEN f.quality
    ELSE "unknown"

\* Array.prototype.indexOf, 1-based here, 0 when absent.
IndexOf(s, x) ==
    IF \E i \in 1..Len(s) : s[i] = x
    THEN CHOOSE i \in 1..Len(s) : s[i] = x /\ \A j \in 1..(i - 1) : s[j] # x
    ELSE 0

\* Faulty variant of scoreFormat: the bonus of a place is 5000, not 10000.
scoreFormat_halfBonus(f) ==
    LET preferredIndex == IndexOf(PREFERRED_MUXED_ITAGS, f.itag)
        itagBonus == IF preferredIndex # 0
                     THEN (Len(PREFERRED_MUXED_ITAGS) - (preferredIndex - 1)) * 5000
                     ELSE 0
        heightScore == Min(f.height, 720) * 10
    IN  (itagBonus + heightScore) * 1000 + Min(f.bitrate, 3000000)

\* Faulty variant of scoreFormat: the bonus grows with the place in the
\* preference list.
scoreFormat_risingBonus(f) ==
    LET preferredIndex == IndexOf(PREFERRED_MUXED_ITAGS, f.itag)
        itagBonus == IF preferredIndex # 0 THEN preferredIndex * 10000 ELSE 0
        heightScore == Min(f.height, 720) * 10
    IN  (itagBonus + heightScore) * 1000 + Min(f.bitrate, 3000000)

\* scoreFormat, times 1000: the code divides the capped bitrate by 1000 and
\* adds it to integers; multiplying the sum by 1000 keeps it an integer and
\* keeps the order of any two scores.
scoreFormat(f) ==
    LET preferredIndex == IndexOf(PREFERRED_MUXED_ITAGS, f.itag)
        itagBonus == IF preferredIndex # 0
                     THEN (Len(PREFERRED_MUXED_ITAGS) - (preferredIndex - 1)) * 10000
                     ELSE 0
        heightScore == Min(f.height, 720) * 10
    IN  (itagBonus + heightScore) * 1000 + Min(f.bitrate, 3000000)

\* sorted[0] of a stable descending sort: the place of the first element,
\* in list order, whose sort key is the largest.  keys[i] is the sort key of
\* the i-th element.
FirstMaxIndex(keys) ==
    CHOOSE i \in 1..Len(keys) :
        /\ \A j \in 1..Len(keys) : keys[j] <= keys[i]
        /\ \A j \in 1..(i - 1) : keys[j] < keys[i]

\* Faulty variant of Bitrates: the sort compares nothing.
Bitrates_flat(pool) == [i \in 1..Len(pool) |-> 0]

\* The sort keys of (b.bitrate ?? 0) - (a.bitrate ?? 0)
Bitrates(pool) == [i \in 1..Len(pool) |-> pool[i].bitrate]

\* The sort keys of scoreFormat(b) - scoreFormat(a)
Scores(pool) == [i \in 1..Len(pool) |-> scoreFormat(pool[i])]

\* Faulty variant of FirstRankedItag: the candidates are scanned in their
\* own order.
FirstRankedItag_poolOrder(ranked, pool) ==
    IF \E r \in 1..Len(ranked) : \E i \in 1..Len(pool) : pool[i].itag = ranked[r]
    THEN pool[CHOOSE i \in 1..Len(pool) :
                /\ \E r \in 1..Len(ranked) : pool[i].itag = ranked[r]
                /\ \A j \in 1..(i - 1) : \A r \in 1..Len(ranked) : pool[j].itag # ranked[r]].itag
    ELSE 0

\* Array.prototype.find over the ranked itag list: the first list entry, in
\* rank order, that some candidate carries; 0 when none does.
FirstRankedItag(ranked, pool) ==
    IF \E r \in 1..Len(ranked) : \E i \in 1..Len(pool) : pool[i].itag = ranked[r]
    THEN ranked[CHOOSE r \in 1..Len(ranked) :
                  /\ \E i \in 1..Len(pool) : pool[i].itag = ranked[r]
                  /\ \A q \in 1..(r - 1) : \A i \in 1..Len(pool) : pool[i].itag # ranked[q]]
    ELSE 0

\* find((f) => f.itag === itag): the first candidate with that itag.
FindItag(pool, itag) ==
    pool[CHOOSE i \in 1..Len(pool) :
            /\ pool[i].itag = itag
            /\ \A j \in 1..(i - 1) : pool[j].itag # itag]

NoFormat == Fmt(0, NoUrl, Mime("", "", <<>>), "", "", "", 0, 0)

IsVideoOnly(f) ==
    HasUrl(f) /\ Truthy(f.qualityLabel) /\ ~Truthy(f.audioQuality) /\ IsVideoMime(f)

IsAudioOnly(f) ==
    HasUrl(f) /\ Truthy(f.audioQuality) /\ ~Truthy(f.qualityLabel) /\ IsAudioMime(f)

PickRanked(pool, ranked) ==
    IF Len(pool) = 0 THEN NoFormat
    ELSE IF FirstRankedItag(ranked, pool) # 0
         THEN FindItag(pool, FirstRankedItag(ranked, pool))
         ELSE pool[FirstMaxIndex(Bitrates(pool))]

pickBestAdaptiveVideo(adaptiveFormats) ==
    PickRanked(SelectSeq(adaptiveFormats, IsVideoOnly), ADAPTIVE_VIDEO_ITAGS_RANKED)

pickBestAdaptiveAudio(adaptiveFormats) ==
    PickRanked(SelectSeq(adaptiveFormats, IsAudioOnly), ADAPTIVE_AUDIO_ITAGS_RANKED)

(***************************************************************************)
(* Player responses (InnertubePlayerResponse): the playability status, the *)
(* two descriptor lists of streamingData (hasSd FALSE: no streamingData)   *)
(* and videoDetails.lengthSeconds (0: absent).                             *)
(***************************************************************************)
Resp(status, hasSd, formats, adaptiveFormats, lengthSeconds) ==
    [status |-> status, hasSd |-> hasSd, formats |-> formats,
     adaptiveFormats |-> adaptiveFormats, lengthSeconds |-> lengthSeconds]

IsMuxedWithUrl(f) == HasUrl(f) /\ isMuxedFormat(f)

parseMuxedFormats(resp) ==
    IF ~resp.hasSd THEN <<>>
    ELSE SelectSeq(resp.formats, HasUrl) \o SelectSeq(resp.adaptiveFormats, IsMuxedWithUrl)

parseAdaptiveFormats(resp) ==
    IF ~resp.hasSd THEN <<>>
    ELSE SelectSeq(resp.adaptiveFormats, HasUrl)

(***************************************************************************)
(* ExtractedStream.  NoStream is the null bestStream.                      *)
(***************************************************************************)
NoStream ==
    [url |-> NoUrl, quality |-> "", mimeType |-> Mime("", "", <<>>), itag |-> 0,
     hasAudio |-> FALSE, hasVideo |-> FALSE, bitrate |-> 0]

\* The stream record pickBestMuxedStream and the streams list build from a
\* muxed descriptor.
MuxedStream(f) ==
    [url |-> f.url, quality |-> formatQualityLabel(f), mimeType |-> f.mimeType,
     itag |-> f.itag,
     hasAudio |-> (Truthy(f.audioQuality) \/ isMuxedFormat(f)),
     hasVideo |-> (Truthy(f.qualityLabel) \/ IsVideoMime(f)),
     bitrate |-> f.bitrate]

IsVideoAdaptive(f) == HasUrl(f) /\ Truthy(f.qualityLabel) /\ IsVideoMime(f)

pickBestMuxedStream(muxedFormats, adaptiveFormats) ==
    IF Len(muxedFormats) > 0
    THEN LET mp4Formats == SelectSeq(muxedFormats, isVideoMp4)
             pool == IF Len(mp4Formats) > 0 THEN mp4Formats ELSE muxedFormats
         IN  MuxedStream(pool[FirstMaxIndex(Scores(pool))])
    ELSE LET videoAdaptive == SelectSeq(adaptiveFormats, IsVideoAdaptive)
         IN  IF Len(videoAdaptive) > 0
             THEN LET best == videoAdaptive[FirstMaxIndex(Bitrates(videoAdaptive))]
                  IN  [url |-> best.url, quality |-> formatQualityLabel(best),
                       mimeType |-> best.mimeType, itag |-> best.itag,
                       hasAudio |-> FALSE, hasVideo |-> TRUE,
                       bitrate |-> best.bitrate]
             ELSE NoStream

\* String.prototype.replace with a global one-character pattern, on a
\* string kept as the tuple of its characters.
RECURSIVE ReplaceAll(_, _, _)
ReplaceAll(s, ch, with) ==
    IF s = <<>> THEN <<>>
    ELSE (IF Head(s) = ch THEN with ELSE <<Head(s)>>) \o ReplaceAll(Tail(s), ch, with)

\* escapeXml of writeDashManifestToFile: its four replacements, in order.
escapeXml(s) ==
    ReplaceAll(
        ReplaceAll(
            ReplaceAll(
                ReplaceAll(s, "&", <<"&", "a", "m", "p", ";">>),
                "\"", <<"&", "q", "u", "o", "t", ";">>),
            "<", <<"&", "l", "t", ";">>),
        ">", <<"&", "g", "t", ";">>)

\* The file writeDashManifestToFile writes: its name's video id and the urls
\* given to escapeXml for the two BaseURL elements.
ManifestFile(videoId, videoFormat, audioFormat) ==
    [videoId |-> videoId, videoUrl |-> videoFormat.url, audioUrl |-> audioFormat.url]

\* Faulty variant of DashStream: the audio bitrate is left out.
DashStream_videoBitrate(bestVideo, bestAudio, mpdFilePath) ==
    [url |-> mpdFilePath, quality |-> formatQualityLabel(bestVideo),
     mimeType |-> Mime("application", "dash+xml", <<>>), itag |-> bestVideo.itag,
     hasAudio |-> TRUE, hasVideo |-> TRUE, bitrate |-> bestVideo.bitrate]

\* The bestStream extract builds once the manifest file is written.
DashStream(bestVideo, bestAudio, mpdFilePath) ==
    [url |-> mpdFilePath, quality |-> formatQualityLabel(bestVideo),
     mimeType |-> Mime("application", "dash+xml", <<>>), itag |-> bestVideo.itag,
     hasAudio |-> TRUE, hasVideo |-> TRUE,
     bitrate |-> bestVideo.bitrate + bestAudio.bitrate]

(***************************************************************************)
(* The resolved-stream cache: TrailerService.urlCache, a JavaScript Map.   *)
(* A Map iterates in insertion order, set on a key it holds keeps the      *)
(* key's place, delete removes the key: the Map is the sequence of its     *)
(* entries, oldest insertion first.                                        *)
(***************************************************************************)
CacheEntry(key, url, expiresAt) == [key |-> key, url |-> url, expiresAt |-> expiresAt]

\* Place of key's entry in the map, 0 when the map has none.
CacheIndex(cache, key) ==
    IF \E i \in 1..Len(cache) : cache[i].key = key
    THEN CHOOSE i \in 1..Len(cache) : cache[i].key = key
    ELSE 0

CacheKeys(cache) == { cache[i].key : i \in 1..Len(cache) }

\* Map.prototype.delete
CacheDelete(cache, key) ==
    LET Keep(e) == e.key # key IN SelectSeq(cache, Keep)

\* Faulty variant of CacheSet: the entry is added even if the map has the key.
CacheSet_append(cache, key, entry) == Append(cache, entry)

\* Map.prototype.set
CacheSet(cache, key, entry) ==
    IF CacheIndex(cache, key) # 0
    THEN [cache EXCEPT ![CacheIndex(cache, key)] = entry]
    ELSE Append(cache, entry)

\* Date.now() > entry.expiresAt
IsExpired(t, entry) == t > entry.expiresAt

\* Faulty variant of IsManifestEntry: getCached without its .mpd test.
IsManifestEntry_never(entry) == FALSE

\* entry.url.endsWith('.mpd')
IsManifestEntry(entry) == EndsWithMpd(entry.url)

\* The url of the entry the map holds for key (NoUrl: it holds none).
CacheUrl(cache, key) ==
    IF CacheIndex(cache, key) = 0 THEN NoUrl ELSE cache[CacheIndex(cache, key)].url

\* What getCached returns (NoUrl: null) when Date.now() is t.
getCachedValue(cache, key, t) ==
    LET i == CacheIndex(cache, key)
    IN  IF i = 0 THEN NoUrl
        ELSE IF IsExpired(t, cache[i]) THEN NoUrl
        ELSE IF IsManifestEntry(cache[i]) THEN NoUrl
        ELSE cache[i].url

\* Faulty variant of getCachedMap: a hit moves the entry to the end of the map.
getCachedMap_touch(cache, key, t) ==
    LET i == CacheIndex(cache, key)
    IN  IF i = 0 THEN cache
        ELSE IF IsExpired(t, cache[i]) THEN CacheDelete(cache, key)
        ELSE IF IsManifestEntry(cache[i]) THEN CacheDelete(cache, key)
        ELSE Append(CacheDelete(cache, key), cache[i])

\* The map getCached leaves.
getCachedMap(cache, key, t) ==
    LET i == CacheIndex(cache, key)
    IN  IF i = 0 THEN cache
        ELSE IF IsExpired(t, cache[i]) THEN CacheDelete(cache, key)
        ELSE IF IsManifestEntry(cache[i]) THEN CacheDelete(cache, key)
        ELSE cache

\* Faulty variant of OverCapacity: eviction starts one entry late.
OverCapacity_late(cache) == Len(cache) > MAX_CACHE_ENTRIES + 1

\* this.urlCache.size > 100
OverCapacity(cache) == Len(cache) > MAX_CACHE_ENTRIES

\* Faulty variant of OldestKey: the key of the entry with the earliest expiry.
OldestKey_earliestExpiry(cache) ==
    cache[CHOOSE i \in 1..Len(cache) :
              \A j \in 1..Len(cache) :
                  \/ cache[i].expiresAt < cache[j].expiresAt
                  \/ cache[i].expiresAt = cache[j].expiresAt /\ i <= j].key

\* The key eviction removes: this.urlCache.keys().next().value
OldestKey(cache) == cache[1].key

\* A cache key is a string; `if (oldest)` is false for the empty one.
KeyTruthy(key) == key.shape # "empty"

\* setCache when Date.now() is t.
setCache(cache, key, url, t) ==
    LET stored == CacheSet(cache, key, CacheEntry(key, url, t + CACHE_TTL_MS))
    IN  IF OverCapacity(stored)
        THEN IF KeyTruthy(OldestKey(stored))
             THEN CacheDelete(stored, OldestKey(stored))
             ELSE stored
        ELSE stored

(***************************************************************************)
(* Strings given to extractVideoId.  A string of characters is a tuple of  *)
(* one-character strings.  An input is kept as the parts the function      *)
(* looks at: its scheme ("" when the text has none, and new URL throws),   *)
(* its host name, the segments of its path, its query parameters in order  *)
(* and whether white space surrounds it.  A text without scheme, host and  *)
(* query and with a single segment is that segment's characters.           *)
(***************************************************************************)
IdChars ==
    { "A", "B", "C", "D", "E", "F", "G", "H", "I", "J", "K", "L", "M", "N", "O",
      "P", "Q", "R", "S", "T", "U", "V", "W", "X", "Y", "Z",
      "a", "b", "c", "d", "e", "f", "g", "h", "i", "j", "k", "l", "m", "n", "o",
      "p", "q", "r", "s", "t", "u", "v", "w", "x", "y", "z",
      "0", "1", "2", "3", "4", "5", "6", "7", "8", "9", "_", "-" }

\* null
NoId == <<>>

Text(scheme, host, path, query, ws) ==
    [scheme |-> scheme, host |-> host, path |-> path, query |-> query, ws |-> ws]

Param(name, value) == [name |-> name, value |-> value]

\* Faulty variant of MatchesId: the pattern without its end anchor.
MatchesId_unanchored(chars) ==
    Len(chars) >= 11 /\ \A i \in 1..11 : chars[i] \in IdChars

\* /^[A-Za-z0-9_-]{11}$/.test(chars)
MatchesId(chars) ==
    Len(chars) = 11 /\ \A i \in 1..11 : chars[i] \in IdChars

\* ([A-Za-z0-9_-]{11}) matches at the start of chars.
StartsWithId(chars) ==
    Len(chars) >= 11 /\ \A i \in 1..11 : chars[i] \in IdChars

\* The characters of input.trim() when the input has no '/', '?' or ':';
\* any other input fails the bare-id pattern on such a character.
IsPlainText(input) ==
    /\ input.scheme = ""
    /\ input.host = ""
    /\ input.query = <<>>
    /\ Len(input.path) = 1

\* new URL(input) succeeds.
IsUrl(input) == input.scheme # ""

\* url.pathname.slice(1).split('/')[0]
FirstSegment(input) == IF Len(input.path) = 0 THEN <<>> ELSE input.path[1]

\* url.searchParams.get('v'): the value of the first parameter named v,
\* <<>> when there is none.
SearchParamV(input) ==
    IF \E i \in 1..Len(input.query) : input.query[i].name = "v"
    THEN input.query[CHOOSE i \in 1..Len(input.query) :
                        /\ input.query[i].name = "v"
                        /\ \A j \in 1..(i - 1) : input.query[j].name # "v"].value
    ELSE <<>>

PathMarkers == { <<"e", "m", "b", "e", "d">>, <<"s", "h", "o", "r", "t", "s">>, <<"v">> }

\* url.pathname.match(/\/(embed|shorts|v)\/([A-Za-z0-9_-]{11})/): the places
\* of a marker segment followed by a segment that starts with an id.
PathMatches(input) ==
    { i \in 1..(Len(input.path) - 1) :
        input.path[i] \in PathMarkers /\ StartsWithId(input.path[i + 1]) }

\* input.match(/[?&]v=([A-Za-z0-9_-]{11})/): the places of a parameter named
\* v whose value starts with an id.
RawMatches(input) ==
    { i \in 1..Len(input.query) :
        input.query[i].name = "v" /\ StartsWithId(input.query[i].value) }

First(S) == CHOOSE i \in S : \A j \in S : i <= j

extractVideoId(input) ==
    IF input.path = <<>> /\ input.scheme = "" /\ input.host = "" /\ input.query = <<>>
    THEN NoId
    ELSE IF IsPlainText(input) /\ MatchesId(input.path[1])
    THEN input.path[1]
    ELSE IF IsUrl(input)
    THEN IF input.host = "youtu.be" /\ MatchesId(FirstSegment(input))
         THEN FirstSegment(input)
         ELSE IF MatchesId(SearchParamV(input))
         THEN SearchParamV(input)
         ELSE IF PathMatches(input) # {}
         THEN SubSeq(input.path[First(PathMatches(input)) + 1], 1, 11)
         ELSE NoId
    ELSE IF RawMatches(input) # {}
    THEN SubSeq(input.query[First(RawMatches(input))].value, 1, 11)
    ELSE NoId

(***************************************************************************)
(* Inputs of the trailer service.  An argument string is named by its      *)
(* shape and the number of the video whose id it carries: "bare" is the    *)
(* 11-character id, "watch" a watch link with a v parameter, "junk" a text *)
(* with no id, "empty" the empty string, "search" the composite key        *)
(* `search:${title}:${year}:${tmdbId}`.  The cache keys are these names.   *)
(***************************************************************************)
Input(shape, id) == [shape |-> shape, id |-> id]

\* The 11 characters of the id of video number id.
IdText(id) ==
    IF id = 1001 THEN <<"d", "Q", "w", "4", "w", "9", "W", "g", "X", "c", "Q">>
    ELSE <<>>

\* The string an input names.
InputText(input) ==
    CASE input.shape = "bare" -> Text("", "", <<IdText(input.id)>>, <<>>, FALSE)
      [] input.shape = "watch" ->
            Text("https", "www.youtube.com", << <<"w", "a", "t", "c", "h">> >>,
                 <<Param("v", IdText(input.id))>>, FALSE)
      [] input.shape = "junk" ->
            Text("", "", << <<"n", "o", "t", " ", "a", "n", " ", "i", "d">> >>, <<>>, FALSE)
      [] OTHER -> Text("", "", <<>>, <<>>, FALSE)

\* YouTubeExtractor.parseVideoId, and the call of extractVideoId in extract:
\* the number of the video whose id the input's string yields; 0 is null.
parseVideoId(input) ==
    LET id == extractVideoId(InputText(input))
    IN  IF id = NoId THEN 0 ELSE input.id

\* The ids of the videos requested in a behaviour.
VideoIds == {1001}

\* getTrailerFromVideoId takes any string: an id, a link to the video, a
\* text without id, the empty string.
VideoIdInputs ==
    { Input("bare", v) : v \in VideoIds } \cup { Input("watch", v) : v \in VideoIds }
    \cup { Input("junk", 0), Input("empty", 0) }

YouTubeUrlInputs == { Input("watch", 1001), Input("junk", 0) }

SearchInputs == { Input("search", 1) }

(***************************************************************************)
(* What the upstream may answer (small catalogs).                          *)
(***************************************************************************)
GoogleVideoUrl(itag) ==
    [scheme |-> "https", host |-> <<"rr1", "googlevideo", "com">>, ext |-> "",
     query |-> TRUE, vid |-> 0, itag |-> itag]

F18 ==
    Fmt(18, GoogleVideoUrl(18), Mime("video", "mp4", <<"avc1.42001E", "mp4a.40.2">>),
        "medium", "360p", "AUDIO_QUALITY_LOW", 500000, 360)

F22 ==
    Fmt(22, GoogleVideoUrl(22), Mime("video", "mp4", <<"avc1.64001F", "mp4a.40.2">>),
        "hd720", "720p", "AUDIO_QUALITY_MEDIUM", 2000000, 720)

\* A ciphered descriptor: signatureCipher instead of url.
F18Ciphered == [F18 EXCEPT !.url = NoUrl]

V137 ==
    Fmt(137, GoogleVideoUrl(137), Mime("video", "mp4", <<"avc1.640028">>),
        "hd1080", "1080p", "", 5000000, 1080)

V136 ==
    Fmt(136, GoogleVideoUrl(136), Mime("video", "mp4", <<"avc1.4d401f">>),
        "hd720", "720p", "", 2500000, 720)

A140 ==
    Fmt(140, GoogleVideoUrl(140), Mime("audio", "mp4", <<"mp4a.40.2">>),
        "tiny", "", "AUDIO_QUALITY_MEDIUM", 128000, 0)

\* A ciphered adaptive descriptor.
V137NoUrl == [V137 EXCEPT !.url = NoUrl]

Responses ==
    { Resp("UNPLAYABLE", TRUE, <<F18>>, <<>>, 0),
      Resp("LOGIN_REQUIRED", TRUE, <<F18>>, <<>>, 0),
      Resp("OK", FALSE, <<>>, <<>>, 0),
      Resp("OK", TRUE, <<F18Ciphered>>, <<>>, 120),
      Resp("", TRUE, <<F18, F22>>, <<>>, 120),
      Resp("OK", TRUE, <<F22>>, <<V137, A140>>, 120),
      Resp("OK", TRUE, <<>>, <<V136, V137, A140>>, 120),
      Resp("OK", TRUE, <<>>, <<A140>>, 120),
      Resp("OK", TRUE, <<F18Ciphered, F22, V136>>, <<V137NoUrl, V137, A140>>, 120) }

NoResp == Resp("", FALSE, <<>>, <<>>, 0)

\* data.url of the remote fallback's JSON answer; NoUrl: no url field.
ServerReplies ==
    { Url("https", <<"d1", "cloudfront", "net">>, "mp4", FALSE),
      Url("https", <<"d1", "cloudfront", "net">>, "mpd", FALSE),
      Url("https", <<"youtube", "com", "evil", "example">>, "", FALSE),
      Url("https", <<"evil", "example">>, "", FALSE),
      Url("ftp", <<"d1", "cloudfront", "net">>, "mp4", FALSE),
      NoUrl }

(***************************************************************************)
(* State.                                                                  *)
(*   proc[p]   one request: where it waits (pc), the public function that  *)
(*             runs it (site), its argument, cache key and extracted video *)
(*             id, the chain's position (client) and the names of the      *)
(*             clients requested so far, whether the abort timers of       *)
(*             fetchPlayerResponse (timer) and doServerFetch (stimer) are  *)
(*             armed, the url the map held for the key when getCached      *)
(*             looked (seen) and what getCached answered (cached), the     *)
(*             accepted player response, how the call of                   *)
(*             writeDashManifestToFile ended if there was one (manifest),  *)
(*             how extract ended (outcome), its bestStream and the streams *)
(*             list of its result, the number                              *)
(*             of fallback requests sent, the function whose catch clause  *)
(*             ran since the request last sent a network call (caught),    *)
(*             whether an exception left the public function (thrown), the *)
(*             url the fallback answered (served) and the value returned.  *)
(*   urlCache  TrailerService.urlCache                                     *)
(*   now       Date.now()                                                  *)
(*   platform  Platform.OS as getTrailerFromVideoId maps it                *)
(*   files     the manifest files in the cache directory                   *)
(*   call      a function of the extractor evaluated on its own, with its  *)
(*             argument                                                    *)
(*   ret       the value that call returned                                *)
(***************************************************************************)
VARIABLES proc, urlCache, now, platform, files, call, ret

vars == <<proc, urlCache, now, platform, files, call, ret>>

\* No function is under evaluation.
NoCall == [fn |-> "", arg |-> <<>>]

NoRet == [fn |-> "", val |-> <<>>]

\* The requests of a behaviour: two calls of the public functions, which run
\* one after the other or overlap at their awaits.
Procs == {1, 2}

IdleProc ==
    [pc |-> "idle", site |-> "", input |-> Input("", 0), key |-> Input("", 0),
     videoId |-> 0, client |-> 0, requested |-> <<>>, timer |-> FALSE,
     stimer |-> FALSE, seen |-> NoUrl, cached |-> NoUrl, accepted |-> NoResp,
     manifest |-> "none", outcome |-> "", caught |-> "", thrown |-> FALSE,
     best |-> NoStream, streams |-> <<>>, serverCalls |-> 0, served |-> NoUrl, result |-> NoUrl]

\* Prefill earlier requests, each for a video of its own, stored at time 0.
PrefilledCache ==
    [i \in 1..Prefill |->
        CacheEntry(Input("bare", i), GoogleVideoUrl(18), CACHE_TTL_MS)]

Init ==
    /\ proc = [p \in Procs |-> IdleProc]
    /\ urlCache = PrefilledCache
    /\ now = 0
    /\ platform \in {"android", "ios"}
    /\ files = {}
    /\ call = NoCall
    /\ ret = NoRet

(***************************************************************************)
(* Steps of the code shared by several actions.                            *)
(***************************************************************************)
\* fetchPlayerResponse up to its await fetch: arm the timer, send the request.
SendClient(pr, i) ==
    [pr EXCEPT !.pc = "fetch", !.client = i,
               !.requested = Append(@, clients[i]), !.timer = TRUE, !.caught = ""]

\* doServerFetch up to its await fetch.
SendServer(pr) ==
    [pr EXCEPT !.pc = "server", !.stimer = TRUE, !.serverCalls = @ + 1,
               !.caught = ""]

\* The public function returns url (NoUrl: null).
Return(pr, url) == [pr EXCEPT !.pc = "done", !.result = url]

\* Faulty variant of CacheHit: the cached value is ignored.
CacheHit_never(cached) == FALSE

\* if (cached)
CacheHit(cached) == cached # NoUrl

\* Faulty variant of OnDeviceOk: the extractor's url is ignored.
OnDeviceOk_never(url) == FALSE

\* if (url) after getBestStreamUrl
OnDeviceOk(url) == url # NoUrl

\* Faulty variant of ServerOk: the fallback's answer is stored whatever it is.
ServerOk_always(url) == TRUE

\* if (serverUrl) / if (serverResult)
ServerOk(url) == url # NoUrl

\* getTrailerFromVideoId from the extractor's answer on: store and return
\* the url, or fall back to the server.  cache is the map as the handler
\* has left it so far.
AfterExtract(p, pr, cache, url) ==
    IF OnDeviceOk(url)
    THEN /\ urlCache' = setCache(cache, pr.key, url, now)
         /\ proc' = [proc EXCEPT ![p] = Return(pr, url)]
    ELSE /\ urlCache' = cache
         /\ proc' = [proc EXCEPT ![p] = SendServer(pr)]

\* extract from the choice of bestStream on, then getBestStreamUrl.
\* dash is the manifest stream, NoStream when none was built.
FinishExtract(p, pr, dash) ==
    LET muxedFormats == parseMuxedFormats(pr.accepted)
        adaptiveFormats == parseAdaptiveFormats(pr.accepted)
        bestStream == IF dash # NoStream THEN dash
                      ELSE pickBestMuxedStream(muxedFormats, adaptiveFormats)
        streams == [i \in 1..Len(muxedFormats) |-> MuxedStream(muxedFormats[i])]
    IN  AfterExtract(p, [pr EXCEPT !.outcome = "resolved", !.best = bestStream,
                                   !.streams = streams],
                     urlCache, bestStream.url)

\* Faulty variant of HasNextClient: the loop stops one client early.
HasNextClient_short(i) == i < Len(clients) - 1

\* for (const client of clients): there is a next client after the i-th.
HasNextClient(i) == i < Len(clients)

\* Faulty variant of NextClient: the loop asks the same client again.
NextClient_retry(i) == i

NextClient(i) == i + 1

\* if (muxedFormats.length === 0 && adaptiveFormats.length === 0) return null
ChainFailed(muxedFormats, adaptiveFormats) ==
    Len(muxedFormats) = 0 /\ Len(adaptiveFormats) = 0

\* `continue`: the next client's request, or the end of the loop with
\* nothing accepted, where extract returns null.
Advance(p, pr) ==
    IF HasNextClient(pr.client)
    THEN /\ proc' = [proc EXCEPT ![p] = SendClient(pr, NextClient(pr.client))]
         /\ UNCHANGED urlCache
    ELSE IF ChainFailed(<<>>, <<>>)
         THEN AfterExtract(p, [pr EXCEPT !.outcome = "exhausted"], urlCache, NoUrl)
         ELSE FinishExtract(p, pr, NoStream)

\* Faulty variant of IsBlockedStatus: LOGIN_REQUIRED is let through.
IsBlockedStatus_unplayableOnly(status) == status = "UNPLAYABLE"

\* status === 'UNPLAYABLE' || status === 'LOGIN_REQUIRED'
IsBlockedStatus(status) == status \in {"UNPLAYABLE", "LOGIN_REQUIRED"}

\* if (muxed.length > 0 || adaptive.length > 0)
HasUsableFormats(muxed, adaptive) == Len(muxed) > 0 \/ Len(adaptive) > 0

\* Faulty variant of TakesDashPath: the platform is not looked at.
TakesDashPath_anyPlatform(os, adaptiveFormats) ==
    /\ Len(adaptiveFormats) > 0
    /\ pickBestAdaptiveVideo(adaptiveFormats) # NoFormat
    /\ pickBestAdaptiveAudio(adaptiveFormats) # NoFormat

\* platform === 'android' && adaptiveFormats.length > 0 && bestVideo && bestAudio
TakesDashPath(os, adaptiveFormats) ==
    /\ os = "android"
    /\ Len(adaptiveFormats) > 0
    /\ pickBestAdaptiveVideo(adaptiveFormats) # NoFormat
    /\ pickBestAdaptiveAudio(adaptiveFormats) # NoFormat

\* Faulty variant of IsNullId: extract goes on without an id.
IsNullId_never(videoId) == FALSE

\* if (!videoId) return null
IsNullId(videoId) == videoId = 0

\* getTrailerFromVideoId from its cache lookup up to the first await on the
\* network.
DoGetTrailerFromVideoId(p, pr0, youtubeVideoId) ==
    LET cached == getCachedValue(urlCache, youtubeVideoId, now)
        cache == getCachedMap(urlCache, youtubeVideoId, now)
        pr == [pr0 EXCEPT !.site = "getTrailerFromVideoId",
                          !.input = youtubeVideoId, !.key = youtubeVideoId,
                          !.seen = CacheUrl(urlCache, youtubeVideoId),
                          !.cached = cached]
        videoId == parseVideoId(youtubeVideoId)
    IN  IF CacheHit(cached)
        THEN /\ proc' = [proc EXCEPT ![p] = Return(pr, cached)]
             /\ urlCache' = cache
        ELSE IF IsNullId(videoId)
             THEN AfterExtract(p, [pr EXCEPT !.outcome = "invalidId"], cache, NoUrl)
             ELSE /\ proc' = [proc EXCEPT ![p] =
                        SendClient([pr EXCEPT !.videoId = videoId], 1)]
                  /\ urlCache' = cache

\* The caller of doServerFetch from its answer on (NoUrl: null).
AfterServer(p, pr, url) ==
    IF pr.site \in {"getTrailerFromVideoId", "getTrailerUrl"} /\ ServerOk(url)
    THEN /\ urlCache' = setCache(urlCache, pr.key, url, now)
         /\ proc' = [proc EXCEPT ![p] = Return(pr, url)]
    ELSE /\ UNCHANGED urlCache
         /\ proc' = [proc EXCEPT ![p] = Return(pr, url)]

(***************************************************************************)
(* Exceptions.  An awaited operation that rejects raises at its site:      *)
(* "fetch" and "json" in fetchPlayerResponse, "write" in                   *)
(* writeDashManifestToFile, "serverFetch" and "serverJson" in              *)
(* doServerFetch.  The exception goes up the stack of callers to the first *)
(* function whose try block covers the call it came through.               *)
(***************************************************************************)
\* The functions on the stack at a site, innermost first; entry is the
\* public function the request called.
CallStack(site, entry) ==
    CASE site \in {"fetch", "json"} ->
            <<"fetchPlayerResponse", "extract", "getBestStreamUrl",
              "getTrailerFromVideoId">>
      [] site = "write" ->
            <<"writeDashManifestToFile", "extract", "getBestStreamUrl",
              "getTrailerFromVideoId">>
      [] OTHER ->
            IF entry = "getTrailerUrl"
            THEN <<"doServerFetch", "getTrailerFromServer", "getTrailerUrl">>
            ELSE <<"doServerFetch", "fetchFromServer", entry>>

\* Faulty variant of TryCovers: no function has a try block.
TryCovers_none(fn, site) == FALSE

\* The try block of fn covers the call through which an exception raised at
\* site reaches fn.
TryCovers(fn, site) ==
    \/ fn = "fetchPlayerResponse" /\ site \in {"fetch", "json"}
    \/ fn = "writeDashManifestToFile" /\ site = "write"
    \/ fn = "doServerFetch" /\ site \in {"serverFetch", "serverJson"}
    \/ fn = "getTrailerFromVideoId" /\ site \in {"fetch", "json", "write"}

\* The function that catches an exception raised at site; "" when it leaves
\* the public function.
Handler(site, entry) ==
    LET stack == CallStack(site, entry)
    IN  IF \E i \in 1..Len(stack) : TryCovers(stack[i], site)
        THEN stack[CHOOSE i \in 1..Len(stack) :
                      /\ TryCovers(stack[i], site)
                      /\ \A j \in 1..(i - 1) : ~TryCovers(stack[j], site)]
        ELSE ""

\* The request pr of p has an exception raised at site: the catch clause of
\* the handler runs and the code goes on from there.
Raise(p, pr, site) ==
    LET h == Handler(site, pr.site)
        c == [pr EXCEPT !.caught = h]
    IN  CASE h = "fetchPlayerResponse" -> Advance(p, [c EXCEPT !.timer = FALSE])
          [] h = "writeDashManifestToFile" ->
                FinishExtract(p, [c EXCEPT !.manifest = "failed"], NoStream)
          [] h = "doServerFetch" -> AfterServer(p, [c EXCEPT !.stimer = FALSE], NoUrl)
          [] h = "getTrailerFromVideoId" ->
                /\ proc' = [proc EXCEPT ![p] = SendServer([c EXCEPT !.outcome = "threw"])]
                /\ UNCHANGED urlCache
          [] OTHER ->
                /\ proc' = [proc EXCEPT ![p] = Return([c EXCEPT !.thrown = TRUE], NoUrl)]
                /\ UNCHANGED urlCache

(***************************************************************************)
(* Actions.                                                                *)
(***************************************************************************)
\* The requests are interchangeable: the one started first is request 1.
FreeSlot(p) ==
    /\ proc[p].pc = "idle"
    /\ \A q \in Procs : q < p => proc[q].pc # "idle"

\* A returned promise settles in a microtask: the caller takes the value
\* before the event loop delivers any other network, file or timer event.
NoneReturning == \A q \in Procs : proc[q].pc # "done"

\* TrailerService.getTrailerFromVideoId(input)
StartVideoId(p, input) ==
    /\ NoneReturning
    /\ FreeSlot(p)
    /\ IF input.shape = "empty"
       THEN /\ proc' = [proc EXCEPT ![p] =
                  Return([@ EXCEPT !.site = "getTrailerFromVideoId", !.input = input],
                         NoUrl)]
            /\ UNCHANGED urlCache
       ELSE DoGetTrailerFromVideoId(p, proc[p], input)
    /\ UNCHANGED <<now, platform, files, call, ret>>

\* TrailerService.getTrailerFromYouTubeUrl(input)
StartYouTubeUrl(p, input) ==
    /\ NoneReturning
    /\ FreeSlot(p)
    /\ IF parseVideoId(input) = 0
       THEN /\ proc' = [proc EXCEPT ![p] =
                  SendServer([@ EXCEPT !.site = "getTrailerFromYouTubeUrl",
                                       !.input = input])]
            /\ UNCHANGED urlCache
       ELSE DoGetTrailerFromVideoId(p, proc[p], Input("bare", parseVideoId(input)))
    /\ UNCHANGED <<now, platform, files, call, ret>>

\* TrailerService.getTrailerUrl(title, year, tmdbId)
StartSearch(p, input) ==
    /\ NoneReturning
    /\ FreeSlot(p)
    /\ LET cached == getCachedValue(urlCache, input, now)
           pr == [proc[p] EXCEPT !.site = "getTrailerUrl", !.input = input,
                                 !.key = input,
                                 !.seen = CacheUrl(urlCache, input),
                                 !.cached = cached]
       IN  /\ urlCache' = getCachedMap(urlCache, input, now)
           /\ proc' = [proc EXCEPT ![p] =
                 IF CacheHit(cached) THEN Return(pr, cached) ELSE SendServer(pr)]
    /\ UNCHANGED <<now, platform, files, call, ret>>

\* fetch rejects: a transport error.
FetchError(p) ==
    /\ NoneReturning
    /\ proc[p].pc = "fetch"
    /\ Raise(p, proc[p], "fetch")
    /\ UNCHANGED <<now, platform, files, call, ret>>

\* The timer of fetchPlayerResponse fires: controller.abort() rejects the
\* pending call with an AbortError.
FetchTimeout(p) ==
    /\ NoneReturning
    /\ proc[p].pc \in {"fetch", "body"}
    /\ proc[p].timer
    /\ Raise(p, proc[p], IF proc[p].pc = "fetch" THEN "fetch" ELSE "json")
    /\ UNCHANGED <<now, platform, files, call, ret>>

\* fetch resolves with the response's status line and headers:
\* clearTimeout(timer), then the response.ok test.
FetchHeaders(p, ok) ==
    /\ NoneReturning
    /\ proc[p].pc = "fetch"
    /\ IF ok
       THEN /\ proc' = [proc EXCEPT ![p].pc = "body", ![p].timer = FALSE]
            /\ UNCHANGED urlCache
       ELSE Advance(p, [proc[p] EXCEPT !.timer = FALSE])
    /\ UNCHANGED <<now, platform, files, call, ret>>

\* response.json() rejects: the body is cut short or is not JSON.
FetchBodyError(p) ==
    /\ NoneReturning
    /\ proc[p].pc = "body"
    /\ Raise(p, proc[p], "json")
    /\ UNCHANGED <<now, platform, files, call, ret>>

\* response.json() resolves with resp: the body of extract's loop, and on
\* acceptance extract up to its await of writeDashManifestToFile or its end.
FetchBody(p, resp) ==
    /\ NoneReturning
    /\ proc[p].pc = "body"
    /\ LET muxed == parseMuxedFormats(resp)
           adaptive == parseAdaptiveFormats(resp)
           pr == [proc[p] EXCEPT !.accepted = resp]
       IN  IF IsBlockedStatus(resp.status) \/ ~HasUsableFormats(muxed, adaptive)
           THEN Advance(p, proc[p])
           ELSE IF ChainFailed(muxed, adaptive)
                THEN AfterExtract(p, [proc[p] EXCEPT !.outcome = "exhausted"],
                                  urlCache, NoUrl)
                ELSE IF TakesDashPath(platform, adaptive)
                     THEN /\ proc' = [proc EXCEPT ![p] = [pr EXCEPT !.pc = "manifest"]]
                          /\ UNCHANGED urlCache
                     ELSE FinishExtract(p, pr, NoStream)
    /\ UNCHANGED <<now, platform, files, call, ret>>

\* writeDashManifestToFile wrote the file and returns its path.
ManifestWritten(p) ==
    /\ NoneReturning
    /\ proc[p].pc = "manifest"
    /\ LET adaptive == parseAdaptiveFormats(proc[p].accepted)
       IN  /\ files' = files \cup
                  { ManifestFile(proc[p].videoId, pickBestAdaptiveVideo(adaptive),
                                 pickBestAdaptiveAudio(adaptive)) }
           /\ FinishExtract(p, [proc[p] EXCEPT !.manifest = "written"],
               DashStream(pickBestAdaptiveVideo(adaptive),
                          pickBestAdaptiveAudio(adaptive),
                          ManifestPath(proc[p].videoId)))
    /\ UNCHANGED <<now, platform, call, ret>>

\* Faulty variant of ManifestFailed: extract gives up when the manifest
\* cannot be written.
ManifestFailed_giveUp(p) ==
    /\ NoneReturning
    /\ proc[p].pc = "manifest"
    /\ AfterExtract(p, [proc[p] EXCEPT !.manifest = "failed", !.outcome = "resolved"],
                    urlCache, NoUrl)
    /\ UNCHANGED <<now, platform, files, call, ret>>

\* writeDashManifestToFile returns null: there is no cache directory.
ManifestFailed(p) ==
    /\ NoneReturning
    /\ proc[p].pc = "manifest"
    /\ FinishExtract(p, [proc[p] EXCEPT !.manifest = "failed"], NoStream)
    /\ UNCHANGED <<now, platform, files, call, ret>>

\* The import of the file system module or the write rejects.
ManifestError(p) ==
    /\ NoneReturning
    /\ proc[p].pc = "manifest"
    /\ Raise(p, proc[p], "write")
    /\ UNCHANGED <<now, platform, files, call, ret>>

\* The fallback's fetch rejects.
ServerError(p) ==
    /\ NoneReturning
    /\ proc[p].pc = "server"
    /\ Raise(p, proc[p], "serverFetch")
    /\ UNCHANGED <<now, platform, files, call, ret>>

\* The timer of doServerFetch fires.
ServerTimeout(p) ==
    /\ NoneReturning
    /\ proc[p].pc \in {"server", "serverBody"}
    /\ proc[p].stimer
    /\ Raise(p, proc[p], IF proc[p].pc = "server" THEN "serverFetch" ELSE "serverJson")
    /\ UNCHANGED <<now, platform, files, call, ret>>

\* The fallback's fetch resolves: clearTimeout(timer), then the res.ok test.
ServerHeaders(p, ok) ==
    /\ NoneReturning
    /\ proc[p].pc = "server"
    /\ IF ok
       THEN /\ proc' = [proc EXCEPT ![p].pc = "serverBody", ![p].stimer = FALSE]
            /\ UNCHANGED urlCache
       ELSE AfterServer(p, [proc[p] EXCEPT !.stimer = FALSE], NoUrl)
    /\ UNCHANGED <<now, platform, files, call, ret>>

\* res.json() rejects.
ServerBodyError(p) ==
    /\ NoneReturning
    /\ proc[p].pc = "serverBody"
    /\ Raise(p, proc[p], "serverJson")
    /\ UNCHANGED <<now, platform, files, call, ret>>

\* What doServerFetch returns for an answer whose url field is url.
doServerFetchResult(url) ==
    IF url = NoUrl \/ ~isValidTrailerUrl(url) THEN NoUrl ELSE url

\* res.json() resolves with { url }.
ServerBody(p, url) ==
    /\ NoneReturning
    /\ proc[p].pc = "serverBody"
    /\ AfterServer(p, [proc[p] EXCEPT !.served = url], doServerFetchResult(url))
    /\ UNCHANGED <<now, platform, files, call, ret>>

\* The caller takes the returned value: the request is over.
Finish(p) ==
    /\ proc[p].pc = "done"
    /\ proc' = [proc EXCEPT ![p] = [IdleProc EXCEPT !.pc = "over"]]
    /\ UNCHANGED <<urlCache, now, platform, files, call, ret>>

\* Time passes.
Tick ==
    /\ NoneReturning
    /\ now < MaxTicks * TickMs
    /\ now' = now + TickMs
    /\ UNCHANGED <<proc, urlCache, platform, files, call, ret>>

Next ==
    \/ \E p \in Procs : \E input \in VideoIdInputs : StartVideoId(p, input)
    \/ \E p \in Procs : \E input \in YouTubeUrlInputs : StartYouTubeUrl(p, input)
    \/ \E p \in Procs : \E input \in SearchInputs : StartSearch(p, input)
    \/ \E p \in Procs : FetchError(p)
    \/ \E p \in Procs : FetchTimeout(p)
    \/ \E p \in Procs : \E ok \in BOOLEAN : FetchHeaders(p, ok)
    \/ \E p \in Procs : FetchBodyError(p)
    \/ \E p \in Procs : \E resp \in Responses : FetchBody(p, resp)
    \/ \E p \in Procs : ManifestWritten(p)
    \/ \E p \in Procs : ManifestFailed(p)
    \/ \E p \in Procs : ManifestError(p)
    \/ \E p \in Procs : ServerError(p)
    \/ \E p \in Procs : ServerTimeout(p)
    \/ \E p \in Procs : \E ok \in BOOLEAN : ServerHeaders(p, ok)
    \/ \E p \in Procs : ServerBodyError(p)
    \/ \E p \in Procs : \E url \in ServerReplies : ServerBody(p, url)
    \/ \E p \in Procs : Finish(p)
    \/ Tick

Spec == Init /\ [][Next]_vars

(***************************************************************************)
(* The functions of the extractor on their own: a behaviour of FnSpec      *)
(* starts with one function and an argument for it and evaluates it.       *)
(***************************************************************************)
IdA == IdText(1001)

IdB == <<"a", "_", "b", "-", "0", "1", "2", "3", "4", "5", "6">>

\* Ten characters, twelve characters, eleven with one outside the pattern.
Short10 == SubSeq(IdA, 1, 10)

Long12 == IdA \o <<"x">>

Bad11 == <<"a", "b", "c", "d", "e", "!", "g", "h", "i", "j", "k">>

Tokens == {IdA, IdB, Short10, Long12, Bad11}

Watch == <<"w", "a", "t", "c", "h">>

Paths ==
    { <<>> } \cup { <<t>> : t \in Tokens }
    \cup { <<m, t>> : m \in PathMarkers \cup {Watch}, t \in Tokens }

Queries ==
    { <<>> } \cup { <<Param("v", t)>> : t \in Tokens }
    \cup { <<Param("x", IdB), Param("v", t)>> : t \in Tokens }
    \cup { <<Param("v", Short10), Param("v", IdB)>> }

Texts ==
    { Text(o[1], o[2], path, query, ws) :
        o \in { <<"", "">>, <<"", "youtu.be">>, <<"", "www.youtube.com">>,
                <<"https", "youtu.be">>, <<"https", "www.youtube.com">> },
        path \in Paths, query \in Queries, ws \in BOOLEAN }

\* Adaptive descriptors: listed and unlisted itags, with bitrates that do
\* not follow the ranks, a muxed one and one without url.
V136High == [V136 EXCEPT !.bitrate = 6000000]

V999 ==
    Fmt(999, GoogleVideoUrl(999), Mime("video", "webm", <<"vp9">>),
        "hd2160", "2160p", "", 9000000, 2160)

V998 ==
    Fmt(998, GoogleVideoUrl(998), Mime("video", "webm", <<"vp9">>),
        "large", "480p", "", 4000000, 480)

A251 ==
    Fmt(251, GoogleVideoUrl(251), Mime("audio", "webm", <<"opus">>),
        "tiny", "", "AUDIO_QUALITY_MEDIUM", 160000, 0)

A997 ==
    Fmt(997, GoogleVideoUrl(997), Mime("audio", "webm", <<"opus">>),
        "tiny", "", "AUDIO_QUALITY_HIGH", 300000, 0)

A996 ==
    Fmt(996, GoogleVideoUrl(996), Mime("audio", "webm", <<"opus">>),
        "tiny", "", "AUDIO_QUALITY_LOW", 64000, 0)

AdaptiveCatalog ==
    {V137, V136High, V999, V998, V137NoUrl, A140, A251, A997, A996, F18}

\* The lists of up to three different descriptors of a catalog.
ListsOf(catalog) ==
    { l \in UNION { [1..n -> catalog] : n \in 0..3 } :
        \A i \in 1..Len(l) : \A j \in 1..Len(l) : i # j => l[i] # l[j] }

\* Muxed descriptors to score: listed and unlisted itags, heights and
\* bitrates absent (0), below, at and above the caps of scoreFormat.
ScoredItags == {22, 18, 59, 78, 43}

ScoredHeights == {0, 360, 720, 1080}

ScoredBitrates == {0, 500000, 3000000, 5000000}

Scored(itag, height, bitrate) ==
    Fmt(itag, GoogleVideoUrl(itag), Mime("video", "mp4", <<"avc1.42001E", "mp4a.40.2">>),
        "medium", "360p", "AUDIO_QUALITY_LOW", bitrate, height)

ScoredFormats ==
    { Scored(itag, height, bitrate) :
        itag \in ScoredItags, height \in ScoredHeights, bitrate \in ScoredBitrates }

\* Muxed descriptors to select from: mp4 ones with listed and unlisted
\* itags, webm ones that outscore the unlisted mp4 one, and pairs of equal
\* score told apart by their urls.
M34 ==
    Fmt(34, GoogleVideoUrl(34), Mime("video", "mp4", <<"avc1.42001E", "mp4a.40.2">>),
        "medium", "360p", "AUDIO_QUALITY_LOW", 500000, 360)

M35 == [M34 EXCEPT !.itag = 35, !.url = GoogleVideoUrl(35)]

W43 ==
    Fmt(43, GoogleVideoUrl(43), Mime("video", "webm", <<"vp8.0", "vorbis">>),
        "hd720", "720p", "AUDIO_QUALITY_MEDIUM", 2000000, 720)

W45 == [W43 EXCEPT !.itag = 45, !.url = GoogleVideoUrl(45)]

MuxedCatalog == {F22, F18, M34, M35, W43, W45}

\* Urls given to escapeXml: the strings of up to three characters over the
\* five reserved characters of XML, a letter and the semicolon.
XmlAlphabet == {"&", "<", ">", "\"", "'", "a", ";"}

Locators == UNION { [1..n -> XmlAlphabet] : n \in 0..3 }

FnInit ==
    /\ proc = [p \in Procs |-> IdleProc]
    /\ urlCache = <<>>
    /\ now = 0
    /\ platform = "ios"
    /\ files = {}
    /\ ret = NoRet
    /\ \/ call \in { [fn |-> "extractVideoId", arg |-> t] : t \in Texts }
       \/ call \in { [fn |-> fn, arg |-> l] :
                       fn \in {"pickBestAdaptiveVideo", "pickBestAdaptiveAudio"},
                       l \in ListsOf(AdaptiveCatalog) }
       \/ call \in { [fn |-> "scoreFormat", arg |-> f] : f \in ScoredFormats }
       \/ call \in { [fn |-> "escapeXml", arg |-> l] : l \in Locators }
       \/ call \in { [fn |-> "pickBestMuxedStream",
                       arg |-> [muxedFormats |-> l, adaptiveFormats |-> a]] :
                       l \in ListsOf(MuxedCatalog), a \in {<<>>, <<V137>>} }

Returns(fn, val) ==
    /\ call.fn = fn
    /\ ret = NoRet
    /\ ret' = [fn |-> fn, val |-> val]
    /\ UNCHANGED <<proc, urlCache, now, platform, files, call>>

CallExtractVideoId == Returns("extractVideoId", extractVideoId(call.arg))

CallPickBestAdaptiveVideo ==
    Returns("pickBestAdaptiveVideo", pickBestAdaptiveVideo(call.arg))

CallPickBestAdaptiveAudio ==
    Returns("pickBestAdaptiveAudio", pickBestAdaptiveAudio(call.arg))

CallScoreFormat == Returns("scoreFormat", scoreFormat(call.arg))

CallPickBestMuxedStream ==
    Returns("pickBestMuxedStream",
            pickBestMuxedStream(call.arg.muxedFormats, call.arg.adaptiveFormats))

CallEscapeXml == Returns("escapeXml", escapeXml(call.arg))

FnNext ==
    \/ CallExtractVideoId
    \/ CallEscapeXml
    \/ CallScoreFormat
    \/ CallPickBestMuxedStream
    \/ CallPickBestAdaptiveVideo
    \/ CallPickBestAdaptiveAudio

FnSpec == FnInit /\ [][FnNext]_vars

(***************************************************************************)
(* The cache on its own, from the empty map: requests reduced to their     *)
(* getCached and setCache calls, with the slots used again and again so    *)
(* that the map fills up and evicts.  now counts milliseconds; a           *)
(* millisecond passes with every store.                                    *)
(***************************************************************************)
\* Stores of a behaviour.
MaxStores == 102

\* A request joins another one's key only while the map holds fewer
\* entries than this.
JoinUntil == 1

\* A key no request asked for before.
FreshKey == Input("bare", now + 1)

\* The keys the request in slot p may ask for: slot 1 a fresh key, slot 2
\* the key slot 1 is fetching, both the key at the front of the map.
RequestKeys(p) ==
    (IF p = 1 THEN {FreshKey} ELSE {})
    \cup (IF p = 2 /\ proc[1].pc = "miss" /\ Len(urlCache) < JoinUntil
          THEN {proc[1].key} ELSE {})
    \cup (IF urlCache # <<>> THEN {OldestKey(urlCache)} ELSE {})

CacheInit ==
    /\ proc = [p \in Procs |-> IdleProc]
    /\ urlCache = <<>>
    /\ now = 0
    /\ platform = "ios"
    /\ files = {}
    /\ call = NoCall
    /\ ret = NoRet

\* getTrailerFromVideoId up to its first await: getCached, and the return
\* on a hit.
CacheRequest(p, key) ==
    /\ NoneReturning
    /\ proc[p].pc = "idle"
    /\ key \in RequestKeys(p)
    /\ LET cached == getCachedValue(urlCache, key, now)
           pr == [proc[p] EXCEPT !.site = "getTrailerFromVideoId",
                                 !.input = key, !.key = key, !.seen = cached]
       IN  /\ urlCache' = getCachedMap(urlCache, key, now)
           /\ proc' = [proc EXCEPT ![p] =
                 IF CacheHit(cached)
                 THEN Return([pr EXCEPT !.cached = cached], cached)
                 ELSE [pr EXCEPT !.pc = "miss"]]
    /\ UNCHANGED <<now, platform, files, call, ret>>

\* The extraction gave a url: setCache and return.
CacheResolve(p) ==
    /\ NoneReturning
    /\ proc[p].pc = "miss"
    /\ now < MaxStores
    /\ urlCache' = setCache(urlCache, proc[p].key, GoogleVideoUrl(18), now)
    /\ now' = now + 1
    /\ proc' = [proc EXCEPT ![p] = Return(@, GoogleVideoUrl(18))]
    /\ UNCHANGED <<platform, files, call, ret>>

\* Nothing gave a url: return null.
CacheFail(p) ==
    /\ NoneReturning
    /\ proc[p].pc = "miss"
    /\ proc' = [proc EXCEPT ![p] = Return(@, NoUrl)]
    /\ UNCHANGED <<urlCache, now, platform, files, call, ret>>

\* The caller has the value; the slot takes the next request.
CacheReturn(p) ==
    /\ proc[p].pc = "done"
    /\ proc' = [proc EXCEPT ![p] = IdleProc]
    /\ UNCHANGED <<urlCache, now, platform, files, call, ret>>

CacheNext ==
    \/ \E p \in Procs : \E key \in RequestKeys(p) : CacheRequest(p, key)
    \/ \E p \in Procs : CacheResolve(p)
    \/ \E p \in Procs : CacheFail(p)
    \/ \E p \in Procs : CacheReturn(p)

CacheSpec == CacheInit /\ [][CacheNext]_vars

(***************************************************************************)
(* Properties.                                                             *)
(***************************************************************************)
IsPrefix(s, t) == Len(s) <= Len(t) /\ \A i \in 1..Len(s) : s[i] = t[i]

\* The request p runs its cache lookup in this step.
LooksUp(p) ==
    /\ proc[p].pc = "idle"
    /\ proc'[p].pc # "idle"
    /\ proc'[p].key # Input("", 0)

\* A player call of p is outstanding and this step ends it without acceptance.
Rejected(p) ==
    /\ proc[p].pc \in {"fetch", "body"}
    /\ proc'[p] # proc[p]
    /\ proc'[p].pc # "body"
    /\ proc'[p].accepted = NoResp

\* C1: in one resolution the clients are requested in catalog order, each at
\* most once; the request for the next client is sent only in the step that
\* ends the previous client's attempt without acceptance, the outstanding
\* call is always the last one requested, and after a response is accepted
\* no client is requested any more.
C1_OrderedChain ==
    [][\A p \in Procs :
          /\ IsPrefix(proc'[p].requested, clients)
          /\ proc'[p].pc \in {"fetch", "body"} => proc'[p].client = Len(proc'[p].requested)
          /\ (proc'[p].requested # proc[p].requested /\ proc'[p].pc # "over") =>
                /\ Len(proc[p].requested) < Len(clients)
                /\ proc'[p].requested =
                      Append(proc[p].requested, clients[Len(proc[p].requested) + 1])
                /\ proc[p].accepted = NoResp
                /\ proc'[p].accepted = NoResp
                /\ proc[p].requested # <<>> => Rejected(p)
                /\ proc'[p].pc = "fetch"]_vars

\* C1 witness: all four clients were requested, in order.
C1_AllFourRequested ==
    \E p \in Procs : proc[p].requested = clients /\ proc[p].pc = "fetch"

\* The acceptance condition, read off a response: the status is not a
\* blocked one and some descriptor of either list carries a url.
Acceptable(resp) ==
    /\ resp.status \notin {"UNPLAYABLE", "LOGIN_REQUIRED"}
    /\ resp.hasSd
    /\ \/ \E i \in 1..Len(resp.formats) : resp.formats[i].url # NoUrl
       \/ \E i \in 1..Len(resp.adaptiveFormats) : resp.adaptiveFormats[i].url # NoUrl

\* C2: an attempt is accepted iff the call succeeded with a success status,
\* the playability status is not blocked and some descriptor has a url; any
\* other end of an attempt (error, timeout, non-success status, blocked
\* status, no usable descriptor) sends the next client's request when there
\* is one, and never ends the resolution before the last client.
C2_AcceptOrAdvance ==
    [][\A p \in Procs :
          /\ \A resp \in Responses :
                FetchBody(p, resp) => (proc'[p].accepted = resp <=> Acceptable(resp))
          /\ (proc[p].accepted = NoResp /\ proc'[p].accepted # NoResp) =>
                /\ proc[p].pc = "body"
                /\ Acceptable(proc'[p].accepted)
          /\ (Rejected(p) /\ proc[p].client < Len(clients)) =>
                /\ proc'[p].pc = "fetch"
                /\ proc'[p].client = proc[p].client + 1
                /\ proc'[p].outcome = ""]_vars

\* C2 witness: a response was accepted after an earlier client was rejected.
C2_AcceptedAfterRejection ==
    \E p \in Procs : proc[p].accepted # NoResp /\ proc[p].client > 1

\* C3: when the last client's attempt is rejected the chain is exhausted
\* and extract returns null (no stream, nothing stored, the caller goes on
\* to its fallback); the chain is exhausted only with all four clients
\* requested and none accepted.
C3_ExhaustedAfterAllFour ==
    [][\A p \in Procs :
          /\ (Rejected(p) /\ proc[p].client = Len(clients)) =>
                proc'[p].outcome = "exhausted"
          /\ proc'[p].outcome = "exhausted" =>
                /\ proc'[p].requested = clients
                /\ proc'[p].accepted = NoResp
                /\ proc'[p].best = NoStream
                /\ proc'[p].serverCalls = 1]_vars

\* C3 witness: a chain ended exhausted.
C3_Exhausted ==
    \E p \in Procs : proc[p].outcome = "exhausted" /\ proc[p].pc = "server"

\* C4, as stated: while a player call has not completed (headers and body
\* received and parsed) its abort timer is armed, so a call that never
\* completes is cancelled.  fetchPlayerResponse clears the timer when the
\* headers arrive, before it awaits the body: a request waiting for the
\* body has no timer.
C4_TimerWhileOutstanding ==
    \A p \in Procs : proc[p].pc \in {"fetch", "body"} => proc[p].timer

\* A url that is no file path of a manifest written on the device.
IsDirectUrl(url) == url.scheme \in {"http", "https"}

\* C5, as stated: a lookup that finds an entry holding a direct url returns
\* that url when the entry has not expired, and returns null and deletes the
\* entry when it has.  getCached also drops an unexpired entry whose direct
\* url ends in .mpd.
C5_DirectUrlUntilExpiry ==
    [][\A p \in Procs :
          LooksUp(p) =>
             LET i == CacheIndex(urlCache, proc'[p].key)
             IN  (i # 0 /\ IsDirectUrl(urlCache[i].url)) =>
                    IF now <= urlCache[i].expiresAt
                    THEN /\ proc'[p].cached = urlCache[i].url
                         /\ proc'[p].result = urlCache[i].url
                    ELSE /\ proc'[p].cached = NoUrl
                         /\ proc'[p].key \notin CacheKeys(urlCache')]_vars

\* The file path of a manifest written by writeDashManifestToFile.
IsManifestArtifact(url) == \E v \in VideoIds : url = ManifestPath(v)

\* C6: getCached never returns the path of a manifest file; a lookup that
\* finds an entry holding one, expired or not, returns null, deletes the
\* entry and the request runs the client chain again from its first client.
C6_ManifestNeverServed ==
    [][\A p \in Procs :
          /\ ~IsManifestArtifact(proc'[p].cached)
          /\ LooksUp(p) =>
                LET i == CacheIndex(urlCache, proc'[p].key)
                IN  (i # 0 /\ IsManifestArtifact(urlCache[i].url)) =>
                       /\ proc'[p].cached = NoUrl
                       /\ proc'[p].key \notin CacheKeys(urlCache')
                       /\ proc'[p].pc = "fetch"
                       /\ proc'[p].requested = <<clients[1]>>]_vars

\* C6 witness: a lookup found a manifest entry and the chain runs again.
C6_ManifestLookedUp ==
    \E p \in Procs :
        /\ IsManifestArtifact(proc[p].seen)
        /\ proc[p].cached = NoUrl
        /\ proc[p].pc = "fetch"

\* C7: the map never holds more than 100 entries; a step that adds a key to
\* a map of 100 removes exactly the oldest-inserted entry and appends the new
\* one, and to a smaller map just appends it.
C7_BoundedOldestEvicted ==
    [][/\ Len(urlCache') <= 100
       /\ CacheKeys(urlCache') \ CacheKeys(urlCache) # {} =>
             IF Len(urlCache) = 100
             THEN /\ Len(urlCache') = 100
                  /\ SubSeq(urlCache', 1, 99) = Tail(urlCache)
             ELSE /\ Len(urlCache') = Len(urlCache) + 1
                  /\ SubSeq(urlCache', 1, Len(urlCache)) = urlCache]_vars

\* C7 witness: 101 keys were inserted (the prefilled ones and two more); the
\* first-inserted key is gone, the 100 later ones are all present.
C7_FirstInsertedEvicted ==
    /\ Len(urlCache) = 100
    /\ Input("bare", 1) \notin CacheKeys(urlCache)
    /\ \A i \in 2..Prefill : urlCache[i - 1].key = Input("bare", i)
    /\ Cardinality(CacheKeys(urlCache)) = 100

\* C8: a request whose lookup returned a url returns that url at once: no
\* client was requested and the fallback was not called; a request that
\* requested a client had a lookup that returned null.
C8_HitSkipsChain ==
    \A p \in Procs :
        /\ proc[p].cached # NoUrl =>
              /\ proc[p].pc = "done"
              /\ proc[p].result = proc[p].cached
              /\ proc[p].requested = <<>>
              /\ proc[p].serverCalls = 0
        /\ proc[p].requested # <<>> =>
              /\ proc[p].key # Input("", 0)
              /\ proc[p].cached = NoUrl

\* C8 witness: a request returned a cached url.
C8_ReturnedFromCache ==
    \E p \in Procs : proc[p].cached # NoUrl /\ proc[p].pc = "done"

\* C9: getTrailerFromVideoId calls the fallback only after the extractor
\* ended without a url (invalid id, chain exhausted, or no playable stream
\* among the accepted formats); when the extractor gave a url the fallback
\* is not called and that url is the one returned.
C9_FallbackAfterDeviceFailure ==
    \A p \in Procs :
        proc[p].site = "getTrailerFromVideoId" =>
            /\ proc[p].serverCalls > 0 =>
                  /\ proc[p].outcome \in {"invalidId", "exhausted", "resolved"}
                  /\ proc[p].best.url = NoUrl
                  /\ proc[p].cached = NoUrl
            /\ proc[p].best.url # NoUrl =>
                  /\ proc[p].serverCalls = 0
                  /\ proc[p].pc = "done"
                  /\ proc[p].result = proc[p].best.url

\* C9 witness: the fallback was called after the chain was exhausted.
C9_FallbackCalled ==
    \E p \in Procs :
        /\ proc[p].site = "getTrailerFromVideoId"
        /\ proc[p].serverCalls = 1
        /\ proc[p].outcome = "exhausted"
        /\ proc[p].pc = "serverBody"

\* host is d or a subdomain of d.
IsDomainOf(host, d) ==
    /\ Len(d) <= Len(host)
    /\ SubSeq(host, Len(host) - Len(d) + 1, Len(host)) = d

\* C10, as stated: a url of the fallback that is returned or stored has an
\* http or https scheme and an allow-listed hosting domain or a media file
\* extension.  isValidTrailerUrl tests the allow-list with host.includes, so
\* a host that merely contains an allow-listed name passes.
C10_OnlyValidatedServerUrls ==
    LET Valid(url) ==
            /\ url.scheme \in {"http", "https"}
            /\ \/ \E d \in ALLOWED_HOSTS : IsDomainOf(url.host, d)
               \/ url.ext \in MEDIA_EXTENSIONS
    IN  /\ \A p \in Procs :
              (proc[p].serverCalls > 0 /\ proc[p].result # NoUrl) => Valid(proc[p].result)
        /\ \A i \in 1..Len(urlCache) :
              IsDirectUrl(urlCache[i].url) => Valid(urlCache[i].url)

\* The adaptive-video and adaptive-audio candidates of a response: url,
\* quality label and no audio quality, video type; url, audio quality and no
\* quality label, audio type.
VideoCandidates(resp) ==
    { f \in { resp.adaptiveFormats[i] : i \in 1..Len(resp.adaptiveFormats) } :
        f.url # NoUrl /\ f.qualityLabel # "" /\ f.audioQuality = ""
        /\ f.mimeType.major = "video" }

AudioCandidates(resp) ==
    { f \in { resp.adaptiveFormats[i] : i \in 1..Len(resp.adaptiveFormats) } :
        f.url # NoUrl /\ f.audioQuality # "" /\ f.qualityLabel = ""
        /\ f.mimeType.major = "audio" }

\* C11: the manifest is written only on android with a video and an audio
\* candidate selected; once it is written, bestStream is the path of the
\* manifest file of the request's video, its bitrate is the sum of the
\* bitrates of the selected video and audio candidates, both flags are
\* true, and that path is what the request returns.
C11_ManifestBestStream ==
    \A p \in Procs :
        /\ proc[p].pc = "manifest" =>
              /\ platform = "android"
              /\ VideoCandidates(proc[p].accepted) # {}
              /\ AudioCandidates(proc[p].accepted) # {}
        /\ proc[p].manifest = "written" =>
              /\ platform = "android"
              /\ proc[p].outcome = "resolved"
              /\ proc[p].best.url = ManifestPath(proc[p].videoId)
              /\ proc[p].best.hasAudio
              /\ proc[p].best.hasVideo
              /\ \E v \in VideoCandidates(proc[p].accepted) :
                 \E a \in AudioCandidates(proc[p].accepted) :
                    /\ v = pickBestAdaptiveVideo(proc[p].accepted.adaptiveFormats)
                    /\ a = pickBestAdaptiveAudio(proc[p].accepted.adaptiveFormats)
                    /\ proc[p].best.itag = v.itag
                    /\ proc[p].best.bitrate = v.bitrate + a.bitrate
              /\ proc[p].result = proc[p].best.url

\* C11 witness: a request returned the manifest it wrote.
C11_ManifestReturned ==
    \E p \in Procs :
        /\ proc[p].manifest = "written"
        /\ proc[p].pc = "done"
        /\ proc[p].best.bitrate = V137.bitrate + A140.bitrate

\* The descriptors of a response that classification takes as muxed: those
\* of formats with a url, and those of adaptiveFormats with a url and two
\* codecs or both an audio quality and a quality label.
MuxedDescriptors(resp) ==
    { f \in { resp.formats[i] : i \in 1..Len(resp.formats) } : f.url # NoUrl }
    \cup
    { f \in { resp.adaptiveFormats[i] : i \in 1..Len(resp.adaptiveFormats) } :
        /\ f.url # NoUrl
        /\ Len(f.mimeType.codecs) > 1 \/ (f.audioQuality # "" /\ f.qualityLabel # "") }

\* C12: a failed manifest write gives null and extract goes on: it ends with
\* a result, and when the accepted response has a muxed descriptor the
\* bestStream is the muxed descriptor selected, with its own url, which the
\* request returns without calling the fallback.
C12_WriteFailureFallsBack ==
    \A p \in Procs :
        proc[p].manifest = "failed" =>
            /\ proc[p].outcome = "resolved"
            /\ MuxedDescriptors(proc[p].accepted) # {} =>
                  /\ \E f \in MuxedDescriptors(proc[p].accepted) :
                        /\ proc[p].best.url = f.url
                        /\ proc[p].best.itag = f.itag
                        /\ IsDirectUrl(f.url)
                  /\ proc[p].best =
                        pickBestMuxedStream(parseMuxedFormats(proc[p].accepted),
                                            parseAdaptiveFormats(proc[p].accepted))
                  /\ proc[p].result = proc[p].best.url
                  /\ proc[p].serverCalls = 0

\* C12 witness: the write failed and the request returned the muxed url.
C12_MuxedAfterWriteFailure ==
    \E p \in Procs :
        /\ proc[p].manifest = "failed"
        /\ proc[p].pc = "done"
        /\ proc[p].result = F22.url

\* The adaptive descriptors of a response that can play as video: url,
\* quality label, video type.
AdaptiveVideo(resp) ==
    { f \in { resp.adaptiveFormats[i] : i \in 1..Len(resp.adaptiveFormats) } :
        f.url # NoUrl /\ f.qualityLabel # "" /\ f.mimeType.major = "video" }

C14_ResultHasBestStream ==
    \A p \in Procs :
        /\ proc[p].outcome = "resolved" => proc[p].best # NoStream
        /\ (proc[p].accepted # NoResp /\ proc[p].pc \notin {"body", "manifest"}
              /\ MuxedDescriptors(proc[p].accepted) = {}
              /\ AdaptiveVideo(proc[p].accepted) = {}) =>
              proc[p].outcome # "resolved"

\* C15: no request ends with an exception leaving its public function:
\* whatever fails (invalid input, a rejected or aborted fetch, a non-success
\* status, a body that cannot be read, the manifest write, the fallback), a
\* catch clause inside the service takes the exception and the request
\* returns a url or null.
C15_NoExceptionEscapes ==
    \A p \in Procs :
        /\ ~proc[p].thrown
        /\ proc[p].caught \in
              {"", "fetchPlayerResponse", "writeDashManifestToFile", "doServerFetch"}
        /\ proc[p].pc = "done" =>
              \/ proc[p].result = NoUrl
              \/ proc[p].result \in {proc[p].cached, proc[p].best.url, proc[p].served}

\* C15 witness: every client failed, then the fallback's fetch or body
\* raised, and the request returned null.
C15_NullAfterFailures ==
    \E p \in Procs :
        /\ proc[p].pc = "done"
        /\ proc[p].requested = clients
        /\ proc[p].outcome = "exhausted"
        /\ proc[p].caught = "doServerFetch"
        /\ proc[p].result = NoUrl
        /\ ~proc[p].thrown

\* C16: a request whose input yields no video id makes no attempt: no
\* client is requested, no response accepted, no manifest written; extract
\* ends at once with null and the request goes on to the fallback.
C16_InvalidIdNoAttempt ==
    \A p \in Procs :
        (proc[p].site = "getTrailerFromVideoId"
           /\ extractVideoId(InputText(proc[p].input)) = NoId) =>
            /\ proc[p].requested = <<>>
            /\ proc[p].pc \notin {"fetch", "body", "manifest"}
            /\ proc[p].accepted = NoResp
            /\ proc[p].manifest = "none"
            /\ proc[p].best = NoStream
            /\ proc[p].outcome \in {"", "invalidId"}
            /\ proc[p].serverCalls > 0 => proc[p].outcome = "invalidId"

\* C16 witness: extract ended on an input without id and the fallback is
\* being asked.
C16_InvalidIdEnded ==
    \E p \in Procs :
        /\ proc[p].outcome = "invalidId"
        /\ proc[p].input = Input("junk", 0)
        /\ proc[p].pc = "server"

\* chars holds eleven id characters in a row.
HasIdRun(chars) ==
    \E k \in 1..Len(chars) :
        /\ k + 10 <= Len(chars)
        /\ \A i \in k..(k + 10) : chars[i] \in IdChars

\* A text none of whose path segments and parameter values holds an id.
Unrelated(text) ==
    /\ \A i \in 1..Len(text.path) : ~HasIdRun(text.path[i])
    /\ \A i \in 1..Len(text.query) : ~HasIdRun(text.query[i].value)

\* The documented shapes carrying the id x: the bare id, a watch link with
\* the id as v parameter, a short link, and an embed, shorts or v path.
DocumentedShapes(x) ==
    { Text("", "", <<x>>, <<>>, ws) : ws \in BOOLEAN }
    \cup { Text("https", "www.youtube.com", <<Watch>>, <<Param("v", x)>>, ws) :
             ws \in BOOLEAN }
    \cup { Text("https", "youtu.be", <<x>>, <<>>, ws) : ws \in BOOLEAN }
    \cup { Text("https", "www.youtube.com", <<m, x>>, <<>>, ws) :
             m \in PathMarkers, ws \in BOOLEAN }

\* C17: what extractVideoId returns is null or eleven characters of the id
\* alphabet; given back as input it is returned unchanged; each documented
\* shape carrying an id yields that id; a text holding no id yields null.
C17_NormalizeIdempotent ==
    ret.fn = "extractVideoId" =>
        /\ ret.val # NoId =>
              /\ Len(ret.val) = 11
              /\ \A i \in 1..Len(ret.val) : ret.val[i] \in IdChars
              /\ extractVideoId(Text("", "", <<ret.val>>, <<>>, FALSE)) = ret.val
        /\ \A x \in {IdA, IdB} : call.arg \in DocumentedShapes(x) => ret.val = x
        /\ Unrelated(call.arg) => ret.val = NoId

\* C17 witness: an embed link surrounded by white space gave its id.
C17_EmbedLinkNormalized ==
    /\ ret.fn = "extractVideoId"
    /\ call.arg = Text("https", "www.youtube.com",
                       << <<"e", "m", "b", "e", "d">>, IdB >>, <<>>, TRUE)
    /\ ret.val = IdB

\* The place of itag in a ranked list, 0 when it is not listed.
RankIn(ranked, itag) ==
    IF \E r \in 1..Len(ranked) : ranked[r] = itag
    THEN CHOOSE r \in 1..Len(ranked) : ranked[r] = itag
    ELSE 0

\* pick is the selection C18 requires among the candidates cands for the
\* ranked list: a candidate; when some candidate's itag is listed, one whose
\* itag no other candidate's itag precedes in the list; otherwise one of
\* the highest bitrate.
IsRankedPick(pick, cands, ranked) ==
    /\ pick \in cands
    /\ IF \E c \in cands : RankIn(ranked, c.itag) # 0
       THEN /\ RankIn(ranked, pick.itag) # 0
            /\ \A c \in cands :
                  RankIn(ranked, c.itag) # 0 =>
                     RankIn(ranked, pick.itag) <= RankIn(ranked, c.itag)
       ELSE \A c \in cands : c.bitrate <= pick.bitrate

\* The elements of a list.
Elements(l) == { l[i] : i \in 1..Len(l) }

\* C18: over a list with at least one candidate, pickBestAdaptiveVideo and
\* pickBestAdaptiveAudio return a candidate: the one whose itag comes first
\* in the ranked list, whatever the order and the bitrates of the
\* candidates, and with no listed itag among them the one of the highest
\* bitrate.
C18_RankedAdaptivePick ==
    /\ ret.fn = "pickBestAdaptiveVideo" =>
          LET cands == { f \in Elements(call.arg) :
                           f.url # NoUrl /\ f.qualityLabel # "" /\ f.audioQuality = ""
                           /\ f.mimeType.major = "video" }
          IN  cands # {} =>
                 IsRankedPick(ret.val, cands, <<137, 248, 136, 247, 135, 244, 134, 243>>)
    /\ ret.fn = "pickBestAdaptiveAudio" =>
          LET cands == { f \in Elements(call.arg) :
                           f.url # NoUrl /\ f.audioQuality # "" /\ f.qualityLabel = ""
                           /\ f.mimeType.major = "audio" }
          IN  cands # {} =>
                 IsRankedPick(ret.val, cands, <<141, 140, 251, 250, 249>>)

\* C18 witness: 137 was picked over a 136 and an unlisted itag that come
\* first and have higher bitrates.
C18_Picked137Over136 ==
    /\ ret.fn = "pickBestAdaptiveVideo"
    /\ call.arg = <<V136High, V999, V137>>
    /\ ret.val = V137

\* C19: among muxed descriptors of equal height and equal bitrate, the
\* descriptor whose itag comes earlier in the preference list <<22, 18, 59,
\* 78>> scores strictly higher than one whose itag comes later, and a
\* listed itag scores strictly higher than an unlisted one.
C19_ScoreFollowsPreference ==
    ret.fn = "scoreFormat" =>
        \A g \in ScoredFormats :
            (/\ g.height = call.arg.height
             /\ g.bitrate = call.arg.bitrate
             /\ RankIn(<<22, 18, 59, 78>>, call.arg.itag) # 0
             /\ \/ RankIn(<<22, 18, 59, 78>>, g.itag) = 0
                \/ RankIn(<<22, 18, 59, 78>>, call.arg.itag)
                      < RankIn(<<22, 18, 59, 78>>, g.itag))
            => ret.val > scoreFormat(g)

\* C19 witness: itag 22 was scored, above 18 and 59 and the unlisted 43 of
\* the same height and bitrate.
C19_Scored22Above18 ==
    /\ ret.fn = "scoreFormat"
    /\ call.arg = Scored(22, 360, 500000)
    /\ ret.val > scoreFormat(Scored(18, 360, 500000))
    /\ scoreFormat(Scored(18, 360, 500000)) > scoreFormat(Scored(59, 360, 500000))
    /\ scoreFormat(Scored(59, 360, 500000)) > scoreFormat(Scored(43, 360, 500000))

\* C20: over a non-empty muxed list, pickBestMuxedStream returns the stream
\* of a descriptor of the pool whose score no descriptor of the pool exceeds
\* and no earlier descriptor of the pool equals; the pool is the video/mp4
\* descriptors when the list has one and the whole list otherwise.
C20_MuxedPickFromPool ==
    (ret.fn = "pickBestMuxedStream" /\ Len(call.arg.muxedFormats) > 0) =>
        LET muxed == call.arg.muxedFormats
            mp4 == { i \in 1..Len(muxed) :
                       muxed[i].mimeType.major = "video" /\ muxed[i].mimeType.sub = "mp4" }
            pool == IF mp4 # {} THEN mp4 ELSE 1..Len(muxed)
        IN  \E i \in pool :
               /\ ret.val.url = muxed[i].url
               /\ ret.val.itag = muxed[i].itag
               /\ ret.val.mimeType = muxed[i].mimeType
               /\ \A j \in pool : scoreFormat(muxed[j]) <= scoreFormat(muxed[i])
               /\ \A j \in pool : j < i => scoreFormat(muxed[j]) < scoreFormat(muxed[i])

\* C20 witness: the mp4 descriptor that comes first of two of equal score
\* was selected although a webm descriptor before them scores higher.
C20_Mp4OverHigherWebm ==
    /\ ret.fn = "pickBestMuxedStream"
    /\ call.arg.muxedFormats = <<W43, M35, M34>>
    /\ scoreFormat(W43) > scoreFormat(M35)
    /\ scoreFormat(M35) = scoreFormat(M34)
    /\ ret.val.url = M35.url

\* C21: no descriptor without url is surfaced: every entry of the streams
\* list of a result has a url, so has the bestStream when the result has
\* one, and both tracks of every manifest written have a url.
C21_NoStreamWithoutUrl ==
    /\ \A p \in Procs :
          /\ \A i \in 1..Len(proc[p].streams) : proc[p].streams[i].url # NoUrl
          /\ proc[p].best # NoStream => proc[p].best.url # NoUrl
          /\ proc[p].outcome = "resolved" =>
                Len(proc[p].streams) =
                   Cardinality({ i \in 1..Len(proc[p].accepted.formats) :
                                   proc[p].accepted.formats[i].url # NoUrl })
                   + Cardinality({ i \in 1..Len(proc[p].accepted.adaptiveFormats) :
                                   proc[p].accepted.adaptiveFormats[i]
                                      \in MuxedDescriptors(proc[p].accepted) })
    /\ \A m \in files : m.videoUrl # NoUrl /\ m.audioUrl # NoUrl

\* C21 witness: a response with a ciphered muxed and a ciphered adaptive
\* descriptor was accepted, its result lists the other muxed descriptors and
\* its manifest is written.
C21_CipheredDropped ==
    \E p \in Procs :
        /\ proc[p].outcome = "resolved"
        /\ proc[p].accepted.formats = <<F18Ciphered, F22, V136>>
        /\ proc[p].accepted.adaptiveFormats = <<V137NoUrl, V137, A140>>
        /\ Len(proc[p].streams) = 2
        /\ proc[p].manifest = "written"
        /\ files # {}

\* C22, as stated: every key of the cache is an 11-character id or a
\* composite search key, and no two keys are of the same video.
\* getTrailerFromVideoId looks up and stores under the string it is given,
\* while extract takes the id out of a link: a link given to it becomes a
\* key, next to the id that getTrailerFromYouTubeUrl stores for that link.
C22_CanonicalCacheKeys ==
    /\ \A i \in 1..Len(urlCache) : urlCache[i].key.shape \in {"bare", "search"}
    /\ \A i \in 1..Len(urlCache) : \A j \in 1..Len(urlCache) :
          (/\ urlCache[i].key.shape \in {"bare", "watch"}
           /\ urlCache[j].key.shape \in {"bare", "watch"}
           /\ urlCache[i].key.id = urlCache[j].key.id) => i = j

\* C23: after every step, a request that missed runs its own chain from the
\* first client whatever another request for the same key is doing, the map
\* holds at most one entry for a request's key and at most 100 entries,
\* and when a request stores, the map's entry for its key holds the url it
\* returns, with the expiry of that store.
C23_ConcurrentSameKeySafe ==
    [][/\ \A p \in Procs :
             (/\ proc'[p].site = "getTrailerFromVideoId"
              /\ proc'[p].videoId # 0
              /\ proc'[p].cached = NoUrl) =>
                 /\ Len(proc'[p].requested) >= 1
                 /\ proc'[p].requested[1] = clients[1]
       /\ Len(urlCache') <= 100
       /\ \A p \in Procs :
             Cardinality({ i \in 1..Len(urlCache') :
                             urlCache'[i].key = proc'[p].key }) <= 1
       /\ \A p \in Procs :
             (/\ proc[p].pc \in {"fetch", "body", "manifest", "server", "serverBody"}
              /\ proc'[p].pc = "done"
              /\ proc'[p].result # NoUrl
              /\ proc'[p].site \in {"getTrailerFromVideoId", "getTrailerUrl"}) =>
                 /\ CacheIndex(urlCache', proc'[p].key) # 0
                 /\ CacheUrl(urlCache', proc'[p].key) = proc'[p].result
                 /\ urlCache'[CacheIndex(urlCache', proc'[p].key)].expiresAt
                       = now + 18000000]_vars

\* C23 witness: two requests for one id both missed; one wrote and stored a
\* manifest, the other stored a muxed url after it, and the map holds the
\* muxed url, in one entry.
C23_SecondStoreWon ==
    \E p \in Procs : \E q \in Procs \ {p} :
        /\ proc[q].pc = "over"
        /\ proc[p].pc = "done"
        /\ proc[p].key = Input("bare", 1001)
        /\ proc[p].seen = NoUrl
        /\ proc[p].manifest # "written"
        /\ proc[p].result = F22.url
        /\ \E m \in files : m.videoId = 1001
        /\ CacheUrl(urlCache, proc[p].key) = F22.url
        /\ Len(proc[p].requested) >= 1

\* The names of the escapes of XML's five reserved characters.
EntityNames ==
    { <<"a", "m", "p", ";">>, <<"l", "t", ";">>, <<"g", "t", ";">>,
      <<"q", "u", "o", "t", ";">>, <<"a", "p", "o", "s", ";">>,
      <<"#", "3", "9", ";">> }

\* An escape starts at place i of text.
EscapeAt(text, i) ==
    /\ text[i] = "&"
    /\ \E name \in EntityNames :
          /\ i + Len(name) <= Len(text)
          /\ SubSeq(text, i + 1, i + Len(name)) = name

\* C24, as stated: in what escapeXml returns, none of <, >, the double quote
\* and the apostrophe occurs, and every & starts an escape.  escapeXml has
\* replacements for &, ", < and > only: an apostrophe stays as it is.
C24_FiveCharactersEscaped ==
    ret.fn = "escapeXml" =>
        \A i \in 1..Len(ret.val) :
            /\ ret.val[i] \notin {"<", ">", "\"", "'"}
            /\ ret.val[i] = "&" => EscapeAt(ret.val, i)

\* C26: on a platform other than android no request waits for a manifest
\* write, no manifest file exists, and no bestStream is a manifest: its url
\* does not end in .mpd and its type is not application/dash+xml, whatever
\* adaptive descriptors the accepted response has.
C26_NoManifestWithoutHint ==
    platform # "android" =>
        /\ files = {}
        /\ \A p \in Procs :
              /\ proc[p].pc # "manifest"
              /\ proc[p].manifest = "none"
              /\ ~EndsWithMpd(proc[p].best.url)
              /\ proc[p].best.mimeType # Mime("application", "dash+xml", <<>>)

\* C26 witness: on ios a response with an adaptive video and an adaptive
\* audio candidate was accepted and the muxed descriptor is the bestStream.
C26_MuxedOnIos ==
    \E p \in Procs :
        /\ platform = "ios"
        /\ proc[p].outcome = "resolved"
        /\ VideoCandidates(proc[p].accepted) # {}
        /\ AudioCandidates(proc[p].accepted) # {}
        /\ proc[p].best.url = F22.url
        /\ proc[p].best.hasAudio

\* C28: the step in which a request returns null leaves the map as it is;
\* and the map changes only in a step in which a request returns a url,
\* which is then the url of its key's entry, or in the lookup step of a
\* request, which removes the entry of the looked-up key, and only when
\* that entry is expired or a manifest path.
C28_FailuresNotCached ==
    [][/\ \A p \in Procs :
             (proc'[p].pc = "done" /\ proc[p].pc # "done" /\ proc'[p].result = NoUrl
                /\ proc[p].pc # "idle") =>
                 urlCache' = urlCache
       /\ urlCache' # urlCache =>
             \E p \in Procs :
                \/ /\ proc[p].pc \notin {"idle", "done"}
                   /\ proc'[p].pc = "done"
                   /\ proc'[p].result # NoUrl
                   /\ CacheUrl(urlCache', proc'[p].key) = proc'[p].result
                \/ /\ proc[p].pc = "idle"
                   /\ proc'[p].pc # "idle"
                   /\ CacheIndex(urlCache, proc'[p].key) # 0
                   /\ LET old == urlCache[CacheIndex(urlCache, proc'[p].key)]
                      IN  now > old.expiresAt \/ (old.url.ext = "mpd" /\ ~old.url.query)
                   /\ Len(urlCache') = Len(urlCache) - 1
                   /\ CacheIndex(urlCache', proc'[p].key) = 0
                   /\ \A i \in 1..Len(urlCache) :
                         urlCache[i].key # proc'[p].key =>
                            \E j \in 1..Len(urlCache') : urlCache'[j] = urlCache[i]]_vars

\* C28 witness: a request found its key's entry expired, both the chain and
\* the fallback failed, it returned null, and the map has no entry for the
\* key and is otherwise as it was before the key was first stored.
C28_NullLeavesNoEntry ==
    \E p \in Procs :
        /\ proc[p].pc = "done"
        /\ proc[p].result = NoUrl
        /\ proc[p].seen # NoUrl
        /\ proc[p].cached = NoUrl
        /\ proc[p].serverCalls > 0
        /\ CacheIndex(urlCache, proc[p].key) = 0
        /\ urlCache = PrefilledCache

\* The place of an itag in the preference list <<22, 18, 59, 78>>; an
\* unlisted itag comes after the last place.
Place(itag) ==
    IF RankIn(<<22, 18, 59, 78>>, itag) # 0 THEN RankIn(<<22, 18, 59, 78>>, itag) ELSE 5

\* The height and bitrate signals of a score, in thousandths of a point:
\* min(height, 720) * 10 + min(bitrate, 3000000) / 1000.
Signals(f) ==
    (IF f.height < 720 THEN f.height ELSE 720) * 10000
    + (IF f.bitrate < 3000000 THEN f.bitrate ELSE 3000000)

\* C29, as stated: whatever the heights and bitrates, a descriptor whose
\* itag has an earlier place in the preference list scores strictly higher
\* than one whose itag has a later place or none.  A place is worth 10000
\* points while height and bitrate together give up to 10200.
C29_BonusDominates ==
    ret.fn = "scoreFormat" =>
        \A g \in ScoredFormats :
            Place(call.arg.itag) < Place(g.itag) => ret.val > scoreFormat(g)

\* C29, amended: a descriptor whose itag is two or more places earlier
\* scores strictly higher whatever the heights and bitrates; one whose itag
\* is one place earlier scores strictly higher exactly when the other's
\* height and bitrate signals exceed its own by less than 10000 points.
C29_BonusDominatesTwoPlaces ==
    ret.fn = "scoreFormat" =>
        \A g \in ScoredFormats :
            /\ Place(call.arg.itag) + 2 <= Place(g.itag) => ret.val > scoreFormat(g)
            /\ Place(call.arg.itag) + 1 = Place(g.itag) =>
                  (ret.val > scoreFormat(g)
                     <=> Signals(g) - Signals(call.arg) < 10000 * 1000)

\* C29 witness: itag 22 without height and bitrate was scored, above itag 59
\* at the caps and below itag 18 at the caps.
C29_Scored22Below18AtCaps ==
    /\ ret.fn = "scoreFormat"
    /\ call.arg = Scored(22, 0, 0)
    /\ ret.val > scoreFormat(Scored(59, 1080, 5000000))
    /\ ret.val < scoreFormat(Scored(18, 1080, 5000000))

\* C30: once extract has returned a result, every entry of its streams list
\* comes from a descriptor that passes the muxed test and carries both the
\* audio and the video flag, and so does a bestStream that was taken from
\* the muxed list.
C30_StreamsGenuinelyMuxed ==
    \A p \in Procs :
        proc[p].outcome = "resolved" =>
            LET muxedFormats == parseMuxedFormats(proc[p].accepted)
            IN  /\ Len(proc[p].streams) = Len(muxedFormats)
                /\ \A i \in 1..Len(muxedFormats) :
                      /\ isMuxedFormat(muxedFormats[i])
                      /\ proc[p].streams[i].hasAudio
                      /\ proc[p].streams[i].hasVideo
                      /\ proc[p].best.url = muxedFormats[i].url =>
                            proc[p].best.hasAudio /\ proc[p].best.hasVideo

\* C25: a request that returns from the cache leaves the map as it was, with
\* the same entries, expiries and order, and returns the entry's url; a key
\* read while at the front of the map is still at the front afterwards, and
\* a store of a new key into a full map removes the entry at the front and
\* keeps the order of the others, whatever was read before.
C25_HitLeavesMapUnchanged ==
    [][\A p \in Procs :
          /\ (proc[p].pc = "idle" /\ proc'[p].pc = "done") =>
                /\ urlCache' = urlCache
                /\ proc'[p].result = CacheUrl(urlCache, proc'[p].key)
                /\ proc'[p].result # NoUrl
          /\ (/\ proc[p].pc = "miss" /\ proc'[p].pc = "done"
              /\ proc'[p].result # NoUrl
              /\ Len(urlCache) = MAX_CACHE_ENTRIES
              /\ CacheIndex(urlCache, proc[p].key) = 0) =>
                urlCache' = Tail(urlCache)
                              \o <<CacheEntry(proc[p].key, proc'[p].result,
                                              now + CACHE_TTL_MS)>>
      ]_vars

\* C25 witness: a request has just been answered from a full map with the
\* url of the entry at the front, which is still at the front, first in line
\* for eviction.
C25_FrontKeyRead ==
    \E p \in Procs :
        /\ proc[p].pc = "done"
        /\ proc[p].cached # NoUrl
        /\ Len(urlCache) = MAX_CACHE_ENTRIES
        /\ proc[p].key = OldestKey(urlCache)
        /\ now > MAX_CACHE_ENTRIES

\* C27, as stated: when a store evicts an entry, the evicted entry has the
\* earliest expiry of the map and is not the entry just stored.
C27_EvictsEarliestExpiry ==
    [][\A p \in Procs :
          (/\ proc[p].pc = "miss" /\ proc'[p].pc = "done"
           /\ proc'[p].result # NoUrl
           /\ Len(urlCache) = MAX_CACHE_ENTRIES) =>
              /\ CacheIndex(urlCache', proc[p].key) # 0
              /\ \A i \in 1..Len(urlCache) :
                    CacheIndex(urlCache', urlCache[i].key) = 0 =>
                        \A j \in 1..Len(urlCache) :
                            urlCache[i].expiresAt <= urlCache[j].expiresAt
      ]_vars

\* C27, amended: when a store evicts an entry, the evicted entry is the one
\* at the front of the map's insertion order and no other entry goes; the
\* entry just stored is in the map, with the expiry of this store.  A store
\* of a key the map holds renews the expiry in place and evicts nothing.
C27_EvictsFrontOfMap ==
    [][\A p \in Procs :
          (/\ proc[p].pc = "miss" /\ proc'[p].pc = "done"
           /\ proc'[p].result # NoUrl
           /\ Len(urlCache) = MAX_CACHE_ENTRIES) =>
              LET stored == CacheEntry(proc[p].key, proc'[p].result, now + CACHE_TTL_MS)
              IN  IF CacheIndex(urlCache, proc[p].key) = 0
                  THEN urlCache' = Tail(urlCache) \o <<stored>>
                  ELSE urlCache' =
                          [urlCache EXCEPT ![CacheIndex(urlCache, proc[p].key)] = stored]
      ]_vars

\* C27 witness: after 102 stores the map has evicted once, so one key was
\* stored twice: the first key, stored again after all the others, has been
\* evicted and the entry now at the front has the earliest expiry.
C27_RenewedEntryEvicted ==
    /\ now = 102
    /\ Len(urlCache) = MAX_CACHE_ENTRIES
    /\ CacheIndex(urlCache, Input("bare", 1)) = 0
    /\ urlCache[1].expiresAt = 1 + CACHE_TTL_MS
    /\ \A i \in 2..Len(urlCache) : urlCache[i].expiresAt > urlCache[1].expiresAt

====
